------------------------------ MODULE MmcIdent ------------------------------
(***************************************************************************)
(* Identification of an SD or MMC card (devb/mmcsd, mmcsd.c): the stages   *)
(* of mmc_card_ident, each run by the completion interrupt of the command  *)
(* before it, against cards that are removed and replaced by others.       *)
(*                                                                         *)
(* MmcReq has the requests and the threads.  Clocks, partitions and the    *)
(* parsed fields of CID and CSD are left out.                              *)
(***************************************************************************)
EXTENDS Integers

CONSTANTS
    Kinds,     \* kinds of cards that are inserted
    Bws,       \* values of the option bw; 0 if it is not given
    NoHs,      \* values of the option nohs
    MaxStage,  \* bound of istage (1000 for SD, 3000 for MMC)
    PwrRetry,  \* ext->pwr_retry
    Rounds     \* bound: number of identifications

AllKinds == {"sd1", "sd2", "sdhc", "mmc3", "mmc4", "emmc"}

ASSUME MmcAssumption ==
    /\ Kinds \subseteq AllKinds /\ Bws \subseteq {0, 1, 4, 8} /\ NoHs \subseteq BOOLEAN
    /\ MaxStage \in Nat /\ PwrRetry \in Nat /\ Rounds \in Nat

VARIABLES
    opt,       \* the options
    caphs,     \* MMC_HCCAP_HS
    slot,      \* external: the card
    stage,     \* ext->ident
    istage, version, rca,   \* fields of ext
    eflags,    \* MMC_EFLAG_HS, HC and TRIM
    width, blksz,   \* the controller's bus width and block size
    count,     \* the static variable of mmc_ident_start
    sent,      \* the command under way
    intr, resp,     \* the outcome of the last command
    result, rounds, \* end of this identification; number of them
    refused    \* history: switches that this card has refused

host == <<width, blksz>>
ext == <<istage, version, rca, eflags>>
idVars == <<opt, caphs, slot, stage, ext, host, count, sent, intr, resp, result, rounds,
            refused>>

Stages == {"NONE", "START", "GO_IDLE", "CARD_VERSION", "SD_POWERUP", "MMC_POWERUP",
           "ALL_SEND_CID", "SET_ADDRESS", "SEND_CID", "SEND_CSD", "SEL_DES_CARD",
           "CHECK_STS", "SET_BW_APP", "SET_BW", "SEND_SCR", "PARSE_SCR", "CHECK_MODE",
           "SWITCH_MODE", "EXT_CSD", "SWITCH_MODE_HS", "SWITCH_MODE_BUSWIDTH", "FINAL"}

Ops == {"GO_IDLE_STATE", "IF_COND", "APP_CMD", "SD_SEND_OP_COND", "SEND_OP_COND",
        "ALL_SEND_CID", "SET_RELATIVE_ADDR", "SEND_CID", "SEND_CSD", "SEL_DES_CARD",
        "SEND_STATUS", "SET_BUS_WIDTH", "SEND_SCR", "SD_SWITCH", "SEND_EXT_CSD",
        "MMC_HS", "MMC_BUSWIDTH", "SET_BLOCKLEN"}

Switches == {"SD_SWITCH", "MMC_HS", "MMC_BUSWIDTH"}

Cmds == [op : Ops, arg : Nat, data : BOOLEAN]

NoCmd == [op |-> "none", arg |-> 0, data |-> FALSE]
NoCard == [kind |-> "none", st |-> "off", rca |-> 0, width |-> 1, hs |-> FALSE, app |-> FALSE]
NoResp == [up |-> FALSE, hc |-> FALSE]
SdRca == 5                   \* external: the address that an SD card chooses

Cards ==
    [kind : Kinds \cup {"none"}, st : {"off", "idle", "ready", "ident", "stby", "tran"},
     rca : {0, 2, SdRca}, width : {1, 4, 8}, hs : BOOLEAN, app : BOOLEAN]

IdValuesOK ==
    /\ stage \in Stages /\ istage \in 0..(MaxStage + 3)
    /\ version \in {"none", "SD1", "SD2", "MMC"} /\ rca \in {0, 2, SdRca}
    /\ eflags \subseteq {"HS", "HC", "TRIM"}
    /\ width \in {1, 4, 8} /\ blksz \in {0, 8, 64, 512}
    /\ count \in 0..PwrRetry /\ intr \in {"none", "ok", "to", "err"}
    /\ result \in {"none", "ok", "fail"} /\ rounds \in 0..Rounds
    /\ refused \subseteq Switches

RecordsOK ==
    /\ opt \in [bw : Bws, nohs : NoHs] /\ caphs \in BOOLEAN
    /\ slot \in Cards
    /\ sent = NoCmd \/ sent \in Cmds
    /\ resp \in [up : BOOLEAN, hc : BOOLEAN]

IdTypeOK == IdValuesOK /\ RecordsOK

IdInit ==
    /\ opt \in [bw : Bws, nohs : NoHs] /\ caphs \in BOOLEAN
    /\ slot = NoCard /\ stage = "NONE" /\ istage = 0 /\ version = "none" /\ rca = 0
    /\ eflags = {} /\ width = 1 /\ blksz = 0 /\ count = 0
    /\ sent = NoCmd /\ intr = "none" /\ resp = NoResp /\ result = "fail" /\ rounds = 0
    /\ refused = {}

(***************************************************************************)
(* Moving from stage to stage                                              *)
(***************************************************************************)

Send(o, a) == sent' = [op |-> o, arg |-> a, data |-> FALSE] /\ intr' = "none"
SendData(o, a) == sent' = [op |-> o, arg |-> a, data |-> TRUE] /\ intr' = "none"

(* A stage has the outcome of its command.                                 *)
Stage(i) ==
    /\ stage = i /\ intr # "none" /\ result = "none"
    /\ UNCHANGED <<opt, caphs, slot, resp, rounds, refused>>
    /\ (i # "START" => UNCHANGED count)

Go(next) == stage' = next /\ UNCHANGED result

(* A stage that fails ends the identification (mmc_ident_irq): after an    *)
(* error, if its data cannot be read, or if the controller does not take   *)
(* its next command.                                                       *)
Fail == result' = "fail" /\ sent' = NoCmd /\ intr' = "none" /\ UNCHANGED <<stage, ext, host>>

Ok == intr = "ok"

(***************************************************************************)
(* The stages                                                              *)
(***************************************************************************)

(* Mutant: flags of the last card are kept.                                *)
OldFlagsGoneMutant(f) == f

OldFlagsGone(f) == f \ {"HS", "HC"}

(* mmc_ident_start: power the card several times.  It is first called when *)
(* a card is inserted and then with every completed command.               *)
IdentStart ==
    /\ stage = "START" /\ sent = NoCmd /\ result = "none"
    /\ eflags' = IF count = 0 THEN OldFlagsGone(eflags) ELSE eflags
    /\ IF slot.kind = "none"
         THEN /\ result' = "fail" /\ intr' = "none"
              /\ UNCHANGED <<stage, sent, count, width>>
         ELSE /\ count' = IF count + 1 > PwrRetry THEN 0 ELSE count + 1
              /\ stage' = IF count' = 0 THEN "GO_IDLE" ELSE "START"
              /\ width' = 1
              /\ \/ Send("GO_IDLE_STATE", 0) /\ UNCHANGED result
                 \/ result' = "fail" /\ intr' = "none" /\ UNCHANGED sent
    /\ UNCHANGED <<opt, caphs, slot, resp, rounds, refused, istage, version, rca, blksz>>

IdentGoIdle ==
    /\ Stage("GO_IDLE")
    /\ \/ Fail
       \/ /\ Ok /\ Go("CARD_VERSION") /\ istage' = 0
          /\ Send("IF_COND", 0)
          /\ UNCHANGED <<version, rca, eflags, host>>

(* The first step of mmc_ident_sd_card_powerup.                            *)
IdentCardVersion ==
    /\ Stage("CARD_VERSION")
    /\ \/ Fail
       \/ /\ intr \in {"to", "ok"}
          /\ version' = IF Ok THEN "SD2" ELSE "SD1"
          /\ Go("SD_POWERUP") /\ istage' = 1
          /\ Send("APP_CMD", 0)
          /\ UNCHANGED <<rca, eflags, host>>

PoweredFlags == IF resp.hc THEN eflags \cup {"HC"} ELSE eflags

TooLong == istage > MaxStage

NextPoll(s) == s + 1

(* mmc_ident_sd_card_powerup: APP_CMD and SD_SEND_OP_COND in turn, the     *)
(* first time with no voltage; no answer to APP_CMD means MMC.             *)
IdentSdPowerup ==
    /\ Stage("SD_POWERUP")
    /\ LET s == IF istage % 3 = 0 THEN istage + 1 ELSE istage
           maybeMmc == s = 1 /\ version = "SD1" /\ intr = "to"
       IN  \/ Fail
           \/ /\ ~TooLong /\ maybeMmc
              /\ Go("MMC_POWERUP") /\ istage' = 0
              /\ Send("GO_IDLE_STATE", 0)
              /\ UNCHANGED <<version, rca, eflags, host>>
           \/ /\ ~TooLong /\ s % 3 = 1 /\ Ok
              /\ istage' = NextPoll(s)
              /\ Send("SD_SEND_OP_COND", (IF s = 1 THEN 0 ELSE 1) + (IF version = "SD2" THEN 2 ELSE 0))
              /\ UNCHANGED <<stage, result, version, rca, eflags, host>>
           \/ /\ ~TooLong /\ s % 3 = 2 /\ Ok
              /\ eflags' = PoweredFlags
              /\ IF resp.up THEN Go("ALL_SEND_CID") /\ istage' = 0 /\ Send("ALL_SEND_CID", 0)
                 ELSE istage' = NextPoll(s) /\ Send("APP_CMD", 0) /\ UNCHANGED <<stage, result>>
              /\ UNCHANGED <<version, rca, host>>

(* mmc_ident_mmc_card_powerup: an inquiry, and then polls.                 *)
IdentMmcPowerup ==
    /\ Stage("MMC_POWERUP")
    /\ \/ Fail
       \/ /\ ~TooLong /\ (istage = 0 \/ Ok)
          /\ eflags' = IF istage > 0 THEN PoweredFlags ELSE eflags
          /\ IF istage > 0 /\ resp.up
               THEN /\ Go("ALL_SEND_CID") /\ istage' = 0 /\ version' = "MMC"
                    /\ Send("ALL_SEND_CID", 0)
               ELSE /\ istage' = NextPoll(istage)
                    /\ Send("SEND_OP_COND", IF istage = 0 THEN 0 ELSE 3)
                    /\ UNCHANGED <<stage, result, version>>
          /\ UNCHANGED <<rca, host>>

IdentAllSendCid ==
    /\ Stage("ALL_SEND_CID")
    /\ \/ Fail
       \/ /\ Ok /\ Go("SET_ADDRESS")
          /\ rca' = IF version = "MMC" THEN 2 ELSE 0
          /\ Send("SET_RELATIVE_ADDR", rca')
          /\ UNCHANGED <<istage, version, eflags, host>>

NewRca == IF version = "MMC" THEN rca ELSE slot.rca    \* in the response

IdentSetAddress ==
    /\ Stage("SET_ADDRESS")
    /\ \/ Fail
       \/ /\ Ok /\ Go("SEND_CID")
          /\ rca' = NewRca
          /\ Send("SEND_CID", rca')
          /\ UNCHANGED <<istage, version, eflags, host>>

(* The stages that only send the next command.                             *)
Follow(i, next, op) ==
    /\ Stage(i)
    /\ \/ Fail
       \/ Ok /\ Go(next) /\ Send(op, rca) /\ UNCHANGED <<ext, host>>

IdentSendCid == Follow("SEND_CID", "SEND_CSD", "SEND_CSD")
IdentSendCsd == Follow("SEND_CSD", "SEL_DES_CARD", "SEL_DES_CARD")
IdentSelDesCard == Follow("SEL_DES_CARD", "CHECK_STS", "SEND_STATUS")

(* Mutant: the block size of the last data command is kept.                *)
FinalBlkszMutant == blksz

(* MMC_DFLT_BLKSIZE.                                                       *)
FinalBlksz == 512

(* mmc_ident_sd_clock and the end of mmc_ident_mmc_clock.                  *)
Finish ==
    /\ Go("FINAL") /\ blksz' = FinalBlksz
    /\ Send("SET_BLOCKLEN", 512)

(* mmc_ident_mmc_clock: one bit.                                           *)
MmcClock == Finish /\ width' = 1 /\ UNCHANGED ext

(* mmc_ident_status_done: read the extended CSD of an MMC card of version  *)
(* 4, finish with an older one, set the bus width of an SD card.           *)
IdentStatusDone ==
    /\ Stage("CHECK_STS")
    /\ \/ Fail
       \/ /\ Ok /\ version = "MMC" /\ slot.kind = "mmc3"
          /\ MmcClock
       \/ /\ Ok /\ version = "MMC" /\ slot.kind # "mmc3"
          /\ Go("EXT_CSD") /\ width' = 1 /\ blksz' = 512
          /\ SendData("SEND_EXT_CSD", 0) /\ UNCHANGED ext
       \/ /\ Ok /\ version # "MMC"
          /\ width' = IF opt.bw # 0 THEN opt.bw ELSE 4
          /\ IF width' = 4 THEN Go("SET_BW_APP") /\ UNCHANGED blksz
                           ELSE Go("SEND_SCR") /\ blksz' = 8
          /\ Send("APP_CMD", rca) /\ UNCHANGED ext

IdentSetbwApp == Follow("SET_BW_APP", "SET_BW", "SET_BUS_WIDTH")

IdentSetbw ==
    /\ Stage("SET_BW")
    /\ \/ Fail
       \/ Ok /\ opt.nohs /\ Finish /\ UNCHANGED <<width, ext>>
       \/ /\ Ok /\ ~opt.nohs /\ Go("SEND_SCR") /\ blksz' = 8
          /\ Send("APP_CMD", rca) /\ UNCHANGED <<width, ext>>

IdentSendScr ==
    /\ Stage("SEND_SCR")
    /\ \/ Fail
       \/ Ok /\ Go("PARSE_SCR") /\ SendData("SEND_SCR", 0) /\ UNCHANGED <<ext, host>>

(* A card of the first specification has no switch command.                *)
IdentParseScr ==
    /\ Stage("PARSE_SCR")
    /\ \/ Fail
       \/ Ok /\ Finish /\ UNCHANGED <<width, ext>>
       \/ /\ Ok /\ Go("CHECK_MODE") /\ blksz' = 64
          /\ SendData("SD_SWITCH", 0) /\ UNCHANGED <<width, ext>>

(* Without high speed in the card or in the controller, and after an       *)
(* error, finish.                                                          *)
IdentCheckMode ==
    /\ Stage("CHECK_MODE")
    /\ \/ Fail
       \/ Finish /\ UNCHANGED <<width, ext>>
       \/ /\ Ok /\ caphs /\ Go("SWITCH_MODE")
          /\ SendData("SD_SWITCH", 1) /\ UNCHANGED <<ext, host>>

IdentSwitchMode ==
    /\ Stage("SWITCH_MODE")
    /\ \/ Fail
       \/ /\ Ok /\ eflags' = (IF slot.hs THEN eflags \cup {"HS"} ELSE eflags)
          /\ Finish /\ UNCHANGED <<istage, version, rca, width>>

(* mmcsd_mmc_config_buswidth: the controller first, then the card.         *)
ConfigBuswidth ==
    /\ width' = IF opt.bw # 0 THEN opt.bw ELSE 8
    /\ Go("SWITCH_MODE_BUSWIDTH")
    /\ Send("MMC_BUSWIDTH", width') /\ UNCHANGED blksz

IdentReadExtCsd ==
    /\ Stage("EXT_CSD")
    /\ \/ Fail
       \/ /\ Ok
          /\ eflags' = IF slot.kind = "emmc" THEN eflags \cup {"TRIM"} ELSE eflags
          /\ IF caphs THEN Go("SWITCH_MODE_HS") /\ Send("MMC_HS", 0) /\ UNCHANGED host
                      ELSE ConfigBuswidth
          /\ UNCHANGED <<istage, version, rca>>

IdentSwitchModeHs ==
    /\ Stage("SWITCH_MODE_HS")
    /\ \/ Fail
       \/ /\ Ok /\ eflags' = eflags \cup {"HS"}
          /\ ConfigBuswidth
          /\ UNCHANGED <<istage, version, rca>>

IdentSwitchBuswidth ==
    /\ Stage("SWITCH_MODE_BUSWIDTH")
    /\ \/ Fail
       \/ Ok /\ Finish /\ UNCHANGED <<width, ext>>

IdentFinal ==
    /\ Stage("FINAL")
    /\ stage' = "NONE" /\ result' = IF Ok THEN "ok" ELSE "fail"
    /\ sent' = NoCmd /\ intr' = "none"
    /\ UNCHANGED <<ext, host>>

Ident ==
    \/ IdentStart \/ IdentGoIdle \/ IdentCardVersion \/ IdentSdPowerup \/ IdentMmcPowerup
    \/ IdentAllSendCid \/ IdentSetAddress \/ IdentSendCid \/ IdentSendCsd
    \/ IdentSelDesCard \/ IdentStatusDone \/ IdentSetbwApp \/ IdentSetbw
    \/ IdentSendScr \/ IdentParseScr \/ IdentCheckMode \/ IdentSwitchMode
    \/ IdentReadExtCsd \/ IdentSwitchModeHs \/ IdentSwitchBuswidth \/ IdentFinal

(***************************************************************************)
(* External: the card                                                      *)
(***************************************************************************)

Sd == slot.kind \in {"sd1", "sd2", "sdhc"}
Mmc == slot.kind \in {"mmc3", "mmc4", "emmc"}
Mine == sent.arg = slot.rca
Powers == sent.arg \in {1, 3} /\ (slot.kind = "sdhc" => sent.arg = 3)

(* What the card becomes by the command, or the card as it is if the       *)
(* command is not for it (then it does not answer).                        *)
Answers ==
    CASE sent.op = "GO_IDLE_STATE" ->
           [NoCard EXCEPT !.kind = slot.kind, !.st = "idle"]
      [] sent.op = "IF_COND" /\ slot.kind \in {"sd2", "sdhc"} -> slot
      [] sent.op = "APP_CMD" /\ Sd /\ Mine -> [slot EXCEPT !.app = TRUE]
      [] sent.op = "SD_SEND_OP_COND" /\ Sd /\ slot.app -> [slot EXCEPT !.app = FALSE]
      [] sent.op = "SEND_OP_COND" /\ Mmc -> slot
      [] sent.op = "ALL_SEND_CID" /\ slot.st = "ready" -> [slot EXCEPT !.st = "ident"]
      [] sent.op = "SET_RELATIVE_ADDR" /\ slot.st = "ident" ->
           [slot EXCEPT !.st = "stby", !.rca = IF Sd THEN SdRca ELSE sent.arg]
      [] sent.op \in {"SEND_CID", "SEND_CSD"} /\ slot.st = "stby" /\ Mine -> slot
      [] sent.op = "SEL_DES_CARD" /\ slot.st = "stby" /\ Mine -> [slot EXCEPT !.st = "tran"]
      [] sent.op = "SEND_STATUS" /\ Mine -> slot
      [] sent.op = "SET_BUS_WIDTH" /\ Sd /\ slot.app -> [slot EXCEPT !.app = FALSE, !.width = 4]
      [] sent.op = "SEND_SCR" /\ Sd /\ slot.app -> [slot EXCEPT !.app = FALSE]
      [] sent.op = "SD_SWITCH" /\ Sd -> [slot EXCEPT !.hs = (sent.arg = 1)]
      [] sent.op = "SEND_EXT_CSD" /\ slot.kind \in {"mmc4", "emmc"} -> slot
      [] sent.op = "MMC_HS" /\ Mmc -> [slot EXCEPT !.hs = TRUE]
      [] sent.op = "MMC_BUSWIDTH" /\ Mmc -> [slot EXCEPT !.width = sent.arg]
      [] sent.op = "SET_BLOCKLEN" -> slot
      [] OTHER -> NoCard

(* The command completes; data needs the right number of lines.  An        *)
(* absent card, and one that does not know the command, time out.          *)
CmdDone(o) ==
    /\ sent # NoCmd /\ intr = "none"
    /\ LET c == Answers
           knows == slot.kind # "none" /\ (c # NoCard)
       IN  /\ o = "ok" => IF sent.op = "GO_IDLE_STATE" THEN TRUE
                          ELSE knows /\ (sent.data => width = slot.width)
           /\ o = "to" => ~knows /\ sent.op # "GO_IDLE_STATE"
           /\ \E up \in BOOLEAN :
                /\ up => o = "ok" /\ sent.op \in {"SD_SEND_OP_COND", "SEND_OP_COND"} /\ Powers
                /\ resp' = [up |-> up, hc |-> up /\ slot.kind \in {"sdhc", "emmc"}]
                /\ slot' = IF o # "ok" \/ ~knows THEN slot
                           ELSE IF up THEN [c EXCEPT !.st = "ready"] ELSE c
    /\ intr' = o /\ sent' = NoCmd
    /\ UNCHANGED <<opt, caphs, stage, ext, host, count, result, rounds, refused>>

(* A card that answers a switch, reports an error in its status and stays  *)
(* as it is.  The response of an SD card to SD_SWITCH says so in data that *)
(* mmc_ident_switch_mode reads; nobody looks for MMC_SWITCH_ERROR.         *)
Refuse ==
    /\ intr = "none" /\ sent.op \in Switches
    /\ IF sent.op = "SD_SWITCH" THEN Sd /\ width = slot.width ELSE Mmc
    /\ refused' = refused \cup {sent.op}
    /\ intr' = "ok" /\ sent' = NoCmd /\ resp' = NoResp
    /\ UNCHANGED <<opt, caphs, slot, stage, ext, host, count, result, rounds>>

Identified == result = "ok" /\ slot.kind # "none"

(* The control thread has a new card identified.                           *)
CardIn(k) ==
    /\ result # "none" /\ rounds < Rounds
    /\ slot' = [NoCard EXCEPT !.kind = k]
    /\ stage' = "START" /\ result' = "none" /\ rounds' = rounds + 1
    /\ refused' = {}
    /\ UNCHANGED <<opt, caphs, ext, host, count, sent, intr, resp>>

(* mx35_interrupt: after a CRC error of data the card is identified again. *)
DataCrcError ==
    /\ Identified /\ rounds < Rounds
    /\ stage' = "START" /\ result' = "none" /\ rounds' = rounds + 1
    /\ refused' = {}
    /\ UNCHANGED <<opt, caphs, slot, ext, host, count, sent, intr, resp>>

CardOut ==
    /\ slot.kind # "none" /\ result = "none"
    /\ slot' = NoCard
    /\ UNCHANGED <<opt, caphs, stage, ext, host, count, sent, intr, resp, result, rounds, refused>>

IdNext ==
    \/ Ident \/ CardOut \/ DataCrcError \/ \E k \in Kinds : CardIn(k)
    \/ Refuse \/ \E o \in {"ok", "to", "err"} : CmdDone(o)

IdSpec ==
    IdInit /\ [][IdNext]_idVars /\ WF_idVars(Ident)
    /\ WF_idVars(\E o \in {"ok", "to", "err"} : CmdDone(o))

(***************************************************************************)
(* Properties                                                              *)
(***************************************************************************)

(* The driver's idea of the card's speed and data lines, unless the card   *)
(* has refused to change them.                                             *)
SameSpeed == "HS" \in eflags => slot.hs \/ "MMC_HS" \in refused
SameLines == slot.width = width \/ "MMC_BUSWIDTH" \in refused

(* A card that was identified is known for what it is, whatever card came  *)
(* before it and however far that one got: its kind, its addressing        *)
(* (blocks or bytes: a wrong MMC_EFLAG_HC reads and writes other blocks),  *)
(* and its speed, unless it has refused the switch.                        *)
KnownForWhatItIs ==
    Identified =>
        /\ version = CASE slot.kind = "sd1" -> "SD1"
                       [] slot.kind \in {"sd2", "sdhc"} -> "SD2"
                       [] OTHER -> "MMC"
        /\ ("HC" \in eflags) = (slot.kind \in {"sdhc", "emmc"})
        /\ SameSpeed

(* The controller and the card agree when it is done: the card is selected *)
(* under the driver's address, both use blocks of 512 bytes and, unless    *)
(* the card has refused to, the same number of data lines.                 *)
HostAndCardAgree ==
    Identified => slot.st = "tran" /\ slot.rca = rca /\ SameLines /\ blksz = 512

(* mmcsd.c:709, "we are in HS now": a card for which the switch to high    *)
(* speed has completed is in high speed.                                   *)
InHighSpeedNow == Identified /\ "HS" \in eflags => slot.hs

(* Every identification ends, with a card that never powers up and with    *)
(* one that is removed on the way, too.                                    *)
IdentEnds == (result = "none") ~> (result # "none")

(* MMC_EFLAG_TRIM says of an identified card that it supports TRIM.        *)
TrimRight == Identified => ("TRIM" \in eflags) = (slot.kind = "emmc")

(* The option nohs disables high speed.                                    *)
NoHighSpeed == Identified /\ opt.nohs => "HS" \notin eflags /\ ~slot.hs

(***************************************************************************)
(* The inductive invariant                                                 *)
(***************************************************************************)

Present == slot.kind # "none"

(* The command whose outcome a stage waits for.                            *)
Awaits(i, o) == stage = i => sent.op = o

Awaited ==
    /\ Awaits("START", "GO_IDLE_STATE") /\ Awaits("GO_IDLE", "GO_IDLE_STATE")
    /\ Awaits("CARD_VERSION", "IF_COND")
    /\ stage = "SD_POWERUP" => sent.op \in {"APP_CMD", "SD_SEND_OP_COND"}
    /\ stage = "SD_POWERUP" /\ istage = 1 => sent.op = "APP_CMD" /\ sent.arg = 0
    /\ stage = "MMC_POWERUP" => sent.op \in {"GO_IDLE_STATE", "SEND_OP_COND"}
    /\ Awaits("ALL_SEND_CID", "ALL_SEND_CID")
    /\ Awaits("SET_ADDRESS", "SET_RELATIVE_ADDR") /\ (stage = "SET_ADDRESS" => sent.arg = rca)
    /\ Awaits("SEND_CID", "SEND_CID") /\ Awaits("SEND_CSD", "SEND_CSD")
    /\ Awaits("SEL_DES_CARD", "SEL_DES_CARD") /\ Awaits("CHECK_STS", "SEND_STATUS")
    /\ Awaits("SET_BW_APP", "APP_CMD") /\ Awaits("SET_BW", "SET_BUS_WIDTH")
    /\ Awaits("SEND_SCR", "APP_CMD")
    /\ Awaits("PARSE_SCR", "SEND_SCR") /\ (stage = "PARSE_SCR" => sent.data)
    /\ Awaits("CHECK_MODE", "SD_SWITCH") /\ Awaits("SWITCH_MODE", "SD_SWITCH")
    /\ Awaits("EXT_CSD", "SEND_EXT_CSD") /\ Awaits("SWITCH_MODE_HS", "MMC_HS")
    /\ Awaits("SWITCH_MODE_BUSWIDTH", "MMC_BUSWIDTH")
    /\ stage = "SWITCH_MODE_BUSWIDTH" => sent.arg = width
    /\ Awaits("FINAL", "SET_BLOCKLEN")

(* A stage waits for its own command, and nothing is under way otherwise.  *)
OwnCommand ==
    /\ result # "none" => sent = NoCmd /\ intr = "none"
    /\ result = "none" => stage # "NONE"
    /\ result = "ok" => stage = "NONE"
    /\ sent # NoCmd => intr = "none" /\ Awaited

Powerup == {"CARD_VERSION", "SD_POWERUP", "MMC_POWERUP"}
Addressing == {"ALL_SEND_CID", "SET_ADDRESS"}
Selecting == {"SEND_CID", "SEND_CSD", "SEL_DES_CARD"}
Selected == Stages \ ({"START", "GO_IDLE"} \cup Powerup \cup Addressing \cup Selecting)

(* The flags are those of this card: cleared before it is powered, and set *)
(* when it said what it is.                                                *)
Flags ==
    /\ count # 0 \/ stage \in {"GO_IDLE"} \cup Powerup => "HS" \notin eflags /\ "HC" \notin eflags
    /\ stage \notin {"NONE", "START", "SWITCH_MODE_BUSWIDTH", "FINAL"} => "HS" \notin eflags
    /\ result = "none" /\ stage # "START" => count = 0
    /\ resp.hc => resp.up
    /\ Present /\ intr = "ok" /\ resp.up => resp.hc = (slot.kind \in {"sdhc", "emmc"})

(* The version, while the card is powered and after that.                  *)
Version ==
    /\ stage = "CARD_VERSION" /\ intr = "ok" => slot.kind \in {"none", "sd2", "sdhc"}
    /\ stage = "CARD_VERSION" /\ intr = "to" => slot.kind \notin {"sd2", "sdhc"}
    /\ stage = "SD_POWERUP" =>
         /\ istage > 0
         /\ Present => version = IF slot.kind \in {"sd2", "sdhc"} THEN "SD2" ELSE "SD1"
         /\ Present /\ intr = "ok" => Sd
         /\ Present /\ intr = "to" /\ istage = 1 => Mmc
    /\ stage = "MMC_POWERUP" /\ Present => Mmc
    /\ stage \in Addressing \cup Selecting \cup Selected /\ Present =>
         /\ version = CASE slot.kind = "sd1" -> "SD1"
                        [] slot.kind \in {"sd2", "sdhc"} -> "SD2"
                        [] OTHER -> "MMC"
         /\ ("HC" \in eflags) = (slot.kind \in {"sdhc", "emmc"})
         /\ SameSpeed
    /\ stage = "SWITCH_MODE_HS" /\ Present /\ intr = "ok" => slot.hs \/ "MMC_HS" \in refused

(* The address and the state of the card.                                  *)
Address ==
    /\ Present /\ (stage \in Powerup \/ (stage = "GO_IDLE" /\ intr = "ok")) => slot.rca = 0
    /\ stage = "SET_ADDRESS" =>
         /\ rca = IF version = "MMC" THEN 2 ELSE 0
         /\ Present /\ intr = "ok" /\ Mmc => slot.rca = rca
    /\ stage \in Selecting \cup Selected /\ Present => slot.rca = rca
    /\ stage = "SEL_DES_CARD" /\ Present /\ intr = "ok" => slot.st = "tran"
    /\ stage \in Selected /\ Present => slot.st = "tran"

(* The data lines and the block size.                                      *)
Lines ==
    /\ stage = "SET_BW_APP" \/ stage = "SET_BW" => width = 4
    /\ stage = "FINAL" \/ result = "ok" => blksz = 512
    /\ Present =>
         /\ stage = "GO_IDLE" /\ intr = "ok" => slot.width = 1
         /\ stage \in Powerup \cup Addressing \cup Selecting \cup {"CHECK_STS"} => slot.width = 1
         /\ stage \in {"SET_BW", "PARSE_SCR", "SWITCH_MODE_BUSWIDTH"} /\ intr = "ok"
              => SameLines
         /\ stage \in {"CHECK_MODE", "SWITCH_MODE", "FINAL"} \/ result = "ok" => SameLines

IdInv == IdTypeOK /\ OwnCommand /\ Flags /\ Version /\ Address /\ Lines
=============================================================================
