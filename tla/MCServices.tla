----------------------------- MODULE MCServices -----------------------------
(* Instances of the services of one scheduler that share no state: each    *)
(* behaviour works one of them, and the others stay as they began.         *)
EXTENDS TimerWheel, Mailbox, ExitRecords, FileIo, HotCode, TLC

CONSTANTS proc, other, host

VARIABLE focus  \* the service at work

LocalAndHost == (proc :> "local") @@ (host :> "io")
LocalLinked == (proc :> "down") @@ (host :> None)
SmallQuota == (proc :> 0) @@ (host :> 2) @@ (Owner :> 1)
TimedCalls == (proc :> {"tcp", "close"}) @@ (other :> {})
TwoCalls == (proc :> 2) @@ (other :> 0)

ServicesInit ==
  /\ focus \in {"wheel", "mailbox", "exits", "io", "code"}
  /\ Init /\ MbInit /\ ErInit /\ IoInit /\ HcInit
  /\ focus # "wheel" => start = 0

ServicesNext ==
  /\ UNCHANGED focus
  /\ \/ focus = "wheel" /\ Next /\ UNCHANGED <<mbVars, erVars, ioVars, hcVars>>
     \/ focus = "mailbox" /\ MbNext /\ UNCHANGED <<vars, erVars, ioVars, hcVars>>
     \/ focus = "exits" /\ ErNext /\ UNCHANGED <<vars, mbVars, ioVars, hcVars>>
     \/ focus = "io" /\ IoNextStep /\ UNCHANGED <<vars, mbVars, erVars, hcVars>>
     \/ focus = "code" /\ HcNext /\ UNCHANGED <<vars, mbVars, erVars, ioVars>>

(* Every service is in a state its types allow; the indexes of the wheel   *)
(* agree, and a parked worker 0 sleeps past none of its timers.            *)
ServicesTypeOK ==
  /\ IndexesAgree /\ ParkedUntilCoversAll
  /\ MailboxTypeOK /\ ExitRecordsTypeOK /\ FileIoTypeOK /\ HotCodeTypeOK

ServicesSpec ==
  ServicesInit /\ [][ServicesNext]_<<focus, vars, mbVars, erVars, ioVars, hcVars>>
=============================================================================
