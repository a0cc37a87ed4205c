--------------------------- MODULE RuntimeProofs ----------------------------
(***************************************************************************)
(* What holds of the runtime for any number of steps: of a task and its    *)
(* agent, that no message is given to the model twice and that no success  *)
(* is the runtime's alone; of a task's stream, that no client misses an    *)
(* event unawares and that none is told to start over without need.        *)
(***************************************************************************)
EXTENDS AgentTask, StreamHub, SequenceTheorems, TLAPS

-----------------------------------------------------------------------------
(* Types. *)

LEMMA InitTyped == Init => TypeOK
  BY TaskAssumption DEF Init, TypeOK, CoreType, HandleType, DiskType, LedgerType, DeskType,
     SessionType, TurnType, HandleStatus, Entry, NoHandle, NoSession, Nobody, Blank, Text

LEMMA SpendTyped ==
    ASSUME TypeOK, NEW what \in {"retries", "aborts", "crashes", "silences"}, Spend(what)
    PROVE  budget' \in [{"retries", "aborts", "crashes", "silences"} -> Nat]
  BY DEF TypeOK, Spend

\* What a handle, a file and a row become when a status is written to them.
LEMMA LocalTyped ==
    ASSUME TypeOK, NEW status \in HandleStatus, Local(status)
    PROVE  handle' \in HandleType /\ disk' \in DiskType /\ handle'.up = handle.up
  BY DEF TypeOK, Local, HandleType, DiskType

LEMMA HeardTyped ==
    ASSUME TypeOK, NEW status \in Open \cup Final, Heard(status)
    PROVE  core' \in CoreType /\ budget' = budget
  BY DEF TypeOK, Heard, Become, CoreType

LEMMA FailClosedTyped ==
    ASSUME TypeOK, FailClosed
    PROVE  /\ core' \in CoreType /\ handle' \in HandleType /\ disk' \in DiskType
           /\ handle'.up = handle.up
           /\ budget' \in [{"retries", "aborts", "crashes", "silences"} -> Nat]
  <1>1. handle' \in HandleType /\ disk' \in DiskType /\ handle'.up = handle.up
    BY LocalTyped DEF FailClosed, HandleStatus
  <1>2. core' \in CoreType
    BY HeardTyped DEF FailClosed, Final, TypeOK
  <1>3. budget' \in [{"retries", "aborts", "crashes", "silences"} -> Nat]
    BY HeardTyped, SpendTyped DEF FailClosed, Final, TypeOK
  <1> QED BY <1>1, <1>2, <1>3

LEMMA TellingFailsTyped ==
    ASSUME TypeOK, NEW to \in Open \cup Final, TellingFails(to)
    PROVE  /\ core' \in CoreType /\ handle' \in HandleType /\ disk' \in DiskType
           /\ handle'.up = handle.up
           /\ budget' \in [{"retries", "aborts", "crashes", "silences"} -> Nat]
  <1>1. CASE ~Allowed(to) /\ FailClosed
    BY <1>1, FailClosedTyped
  <1>2. CASE /\ Spend("silences") /\ Local("fail_closed")
             /\ core' \in {core} \cup {[core EXCEPT !.status = s] :
                                          s \in {u \in {to, "fail_closed"} : Allowed(u)}}
    <2>1. handle' \in HandleType /\ disk' \in DiskType /\ handle'.up = handle.up
      BY <1>2, LocalTyped DEF HandleStatus
    <2>2. core' \in CoreType
      BY <1>2 DEF CoreType, Final, TypeOK
    <2> QED BY <1>2, <2>1, <2>2, SpendTyped
  <1> QED BY <1>1, <1>2 DEF TellingFails

\* The requests: of people, and of Core to the runtime.
LEMMA RequestsTyped ==
    ASSUME TypeOK, Create \/ CreateAgain \/ Abort \/ Requests
    PROVE  TypeOK'
  <1>1. CASE Create
    BY <1>1 DEF Create, runtime, TypeOK, CoreType, Open
  <1>2. CASE CreateAgain
    BY <1>2, SpendTyped DEF CreateAgain, runtime, TypeOK
  <1>3. CASE Abort
    <2>1. core' \in CoreType
      BY <1>3 DEF Abort, TypeOK, CoreType
    <2> QED BY <1>3, <2>1, SpendTyped DEF Abort, runtime, TypeOK
  <1>4. CASE Register
    <2>1. handle' \in HandleType /\ disk' \in DiskType
      <3>1. CASE handle.there
        BY <1>4, <3>1 DEF Register, TypeOK
      <3>2. CASE ~handle.there
        <4>1. /\ handle' = [NoHandle EXCEPT !.there = TRUE, !.status = "idle"]
              /\ disk' = [there |-> TRUE, started |-> FALSE, status |-> "running"]
          BY <1>4, <3>2 DEF Register
        <4>2. handle' \in HandleType
          BY <4>1 DEF NoHandle, HandleType, HandleStatus
        <4>3. disk' \in DiskType
          BY <4>1 DEF DiskType, HandleStatus
        <4> QED BY <4>2, <4>3
      <3> QED BY <3>1, <3>2
    <2> QED BY <1>4, <2>1 DEF Register, TypeOK
  <1>5. CASE StartAgent
    <2>1. handle' \in HandleType /\ disk' \in DiskType
      BY <1>5 DEF StartAgent, TypeOK, HandleType, DiskType, HandleStatus
    <2> QED BY <1>5, <2>1 DEF StartAgent, TypeOK
  <1>6. CASE StartedAlready
    <2>1. core' \in CoreType
      BY <1>6 DEF StartedAlready, TypeOK, CoreType, Open, Final
    <2> QED BY <1>6, <2>1 DEF StartedAlready, runtime, TypeOK
  <1>7. CASE StartRefused
    BY <1>7 DEF StartRefused, runtime, TypeOK
  <1>8. CASE IntendStart
    BY <1>8 DEF IntendStart, At, TypeOK, DeskType, Text
  <1>9. CASE AbortCall
    <2>1. session' \in SessionType /\ handle' \in HandleType
      <3>1. Synced \in HandleStatus
        BY DEF Synced, HandleStatus, TypeOK, SessionType
      <3> QED BY <1>9, <3>1 DEF AbortCall, TypeOK, SessionType, HandleType
    <2> QED BY <1>9, <2>1 DEF AbortCall, TypeOK
  <1>10. CASE AbortCommit
    <2>1. core' \in CoreType
      BY <1>10 DEF AbortCommit, TypeOK, CoreType, Final
    <2> QED BY <1>10, <2>1 DEF AbortCommit, runtime, TypeOK
  <1>11. CASE AbortFails
    <2>1. core' \in CoreType
      BY <1>11 DEF AbortFails, TypeOK, CoreType
    <2>2. budget' \in [{"retries", "aborts", "crashes", "silences"} -> Nat]
      BY <1>11, SpendTyped DEF AbortFails, TypeOK
    <2> QED BY <1>11, <2>1, <2>2 DEF AbortFails, runtime, TypeOK
  <1> QED BY <1>1, <1>2, <1>3, <1>4, <1>5, <1>6, <1>7, <1>8, <1>9, <1>10, <1>11 DEF Requests

LEMMA MessagesTyped ==
    ASSUME TypeOK, NEW m \in Message, Ask(m) \/ AskAgain(m) \/ Answer(m) \/ Intend(m)
    PROVE  TypeOK'
  <1>1. CASE Ask(m)
    BY <1>1 DEF Ask, Send, runtime, TypeOK
  <1>2. CASE AskAgain(m)
    BY <1>2, SpendTyped DEF AskAgain, Send, runtime, TypeOK
  <1>3. CASE Answer(m)
    BY <1>3 DEF Answer, runtime, TypeOK
  <1>4. CASE Intend(m)
    <2>1. ledger' \in LedgerType /\ desk' \in DeskType
      BY <1>4 DEF Intend, At, TypeOK, LedgerType, Entry, DeskType, Text
    <2>2. budget' \in [{"retries", "aborts", "crashes", "silences"} -> Nat]
      BY <1>4, SpendTyped DEF Intend, TypeOK
    <2> QED BY <1>4, <2>1, <2>2 DEF Intend, TypeOK
  <1> QED BY <1>1, <1>2, <1>3, <1>4

LEMMA NoteTyped ==
    ASSUME TypeOK, NEW what \in Entry, NEW durable \in BOOLEAN, Note(what, durable)
    PROVE  ledger' \in LedgerType
  BY DEF Note, TypeOK, LedgerType

LEMMA DispatchTyped ==
    ASSUME TypeOK, Dispatch \/ NoAssembly
    PROVE  TypeOK'
  <1>0. desk.text \in Text
    BY DEF TypeOK, DeskType
  <1>1. CASE Check
    <2>1. desk' \in DeskType
      BY <1>0, <1>1 DEF Check, At, DeskType
    <2>2. session' \in SessionType
      BY <1>1 DEF Check, TypeOK, SessionType
    <2>3. given' \in [Text -> Nat]
      <3>1. given' = given \/ given' = [given EXCEPT ![desk.text] = @ + 1]
        BY <1>1 DEF Check
      <3> QED BY <1>0, <3>1 DEF TypeOK
    <2> QED BY <1>1, <2>1, <2>2, <2>3 DEF Check, TypeOK
  <1>2. CASE NoAssembly
    BY <1>0, <1>2, SpendTyped DEF NoAssembly, At, TypeOK, DeskType
  <1>3. CASE Announce
    <2>1. /\ core' \in CoreType /\ handle' \in HandleType /\ disk' \in DiskType
          /\ budget' \in [{"retries", "aborts", "crashes", "silences"} -> Nat]
      BY <1>3, HeardTyped, TellingFailsTyped DEF Announce, TypeOK, Open
    <2>2. desk' \in DeskType
      BY <1>0, <1>3 DEF Announce, At, DeskType
    <2> QED BY <1>3, <2>1, <2>2 DEF Announce, TypeOK
  <1>4. CASE Prompt
    <2>1. handle' \in HandleType
      BY <1>4 DEF Prompt, TypeOK, HandleType, HandleStatus
    <2>2. desk' \in DeskType
      BY <1>0, <1>4 DEF Prompt, At, DeskType
    <2>3. turn' \in TurnType
      BY <1>0, <1>4 DEF Prompt, TurnType
    <2>4. session' \in SessionType
      BY <1>4 DEF Prompt, TypeOK, SessionType
    <2>5. given' \in [Text -> Nat]
      <3>1. given' = [given EXCEPT ![desk.text] = @ + 1]
        BY <1>4 DEF Prompt
      <3> QED BY <1>0, <3>1 DEF TypeOK
    <2> QED BY <1>4, <2>1, <2>2, <2>3, <2>4, <2>5 DEF Prompt, TypeOK
  <1>5. CASE Record
    <2>1. ledger' \in LedgerType
      BY <1>5, NoteTyped DEF Record, Entry
    <2>2. desk' \in DeskType
      BY <1>5 DEF Record, Nobody, DeskType, Text
    <2>3. budget' \in [{"retries", "aborts", "crashes", "silences"} -> Nat]
      BY <1>5, SpendTyped DEF Record, TypeOK
    <2> QED BY <1>5, <2>1, <2>2, <2>3 DEF Record, Answered, TypeOK
  <1>6. CASE Release
    <2>1. ledger' \in LedgerType
      BY <1>6, NoteTyped DEF Release, Entry, TypeOK
    <2>2. desk' \in DeskType
      BY <1>6 DEF Release, Nobody, DeskType, Text
    <2>3. budget' \in [{"retries", "aborts", "crashes", "silences"} -> Nat]
      BY <1>6, SpendTyped DEF Release, TypeOK
    <2>4. handle' \in HandleType /\ disk' \in DiskType
      BY <1>6 DEF Release, TypeOK, HandleType, DiskType
    <2> QED BY <1>6, <2>1, <2>2, <2>3, <2>4 DEF Release, Answered, TypeOK
  <1> QED BY <1>1, <1>2, <1>3, <1>4, <1>5, <1>6 DEF Dispatch

LEMMA EndTurnTyped ==
    ASSUME TypeOK, NEW status \in {"idle", "cancelled", "failed"}, NEW local \in HandleStatus,
           NEW stage \in {"replied", "stopped", "broken"}, EndTurn(status, local, stage),
           budget' \in [{"retries", "aborts", "crashes", "silences"} -> Nat]
    PROVE  TypeOK'
  <1>1. handle' \in HandleType /\ disk' \in DiskType
    BY LocalTyped DEF EndTurn
  <1>2. session' \in SessionType /\ turn' \in TurnType
    BY DEF EndTurn, Stage, TypeOK, SessionType, TurnType
  <1> QED BY <1>1, <1>2 DEF EndTurn, TypeOK

LEMMA TurnTyped ==
    ASSUME TypeOK, Turn \/ NotKept \/ Break
    PROVE  TypeOK'
  <1>0. Nobody \in TurnType /\ {"awaiting_user", "failed", "succeeded"} \subseteq HandleStatus
    BY DEF Nobody, TurnType, Text, HandleStatus
  <1>9. CASE KeepsText
    <2>1. disk' \in DiskType /\ turn' \in TurnType
      BY <1>9 DEF KeepsText, Stage, TypeOK, DiskType, HandleStatus, TurnType
    <2> QED BY <1>9, <2>1 DEF KeepsText, TypeOK
  <1>10. CASE NotKept
    <2>1. turn' \in TurnType
      BY <1>10 DEF NotKept, Stage, TypeOK, TurnType
    <2> QED BY <1>10, <2>1, SpendTyped DEF NotKept, TypeOK
  <1>1. CASE TakeSteer
    <2>1. session' \in SessionType
      BY <1>1 DEF TakeSteer, TypeOK, SessionType
    <2> QED BY <1>1, <2>1 DEF TakeSteer, TypeOK
  <1>2. CASE Reply
    BY <1>0, <1>2, EndTurnTyped DEF Reply, TypeOK
  <1>3. CASE Stop
    BY <1>0, <1>3, EndTurnTyped DEF Stop, TypeOK
  <1>4. CASE Break
    BY <1>0, <1>4, EndTurnTyped, SpendTyped DEF Break
  <1>5. ASSUME Seal \/ Await
        PROVE  /\ core' \in CoreType /\ handle' \in HandleType /\ disk' \in DiskType
               /\ budget' \in [{"retries", "aborts", "crashes", "silences"} -> Nat]
    <2>1. CASE /\ Become("succeeded") /\ Local("succeeded") /\ UNCHANGED budget
      <3>1. core' \in CoreType
        BY <2>1 DEF Become, TypeOK, CoreType, Final
      <3> QED BY <1>0, <2>1, <3>1, LocalTyped DEF TypeOK
    <2>2. CASE FailClosed
      BY <2>2, FailClosedTyped
    <2>3. CASE TellingFails("succeeded") \/ TellingFails("awaiting_user")
      BY <2>3, TellingFailsTyped DEF Open, Final
    <2>4. CASE Heard("awaiting_user") /\ Local("awaiting_user")
      BY <1>0, <2>4, HeardTyped, LocalTyped DEF Open, TypeOK
    <2> QED BY <1>5, <2>1, <2>2, <2>3, <2>4 DEF Seal, Await
  <1>6. CASE SettleReply
    <2>1. /\ core' \in CoreType /\ handle' \in HandleType /\ disk' \in DiskType
          /\ budget' \in [{"retries", "aborts", "crashes", "silences"} -> Nat]
      BY <1>5, <1>6 DEF SettleReply, TypeOK
    <2> QED BY <1>0, <1>6, <2>1 DEF SettleReply, Settled, TypeOK
  <1>7. CASE SettleStop
    <2>1. handle' \in HandleType
      BY <1>7 DEF SettleStop, TypeOK, HandleType
    <2> QED BY <1>0, <1>7, <2>1 DEF SettleStop, Settled, TypeOK
  <1>8. CASE SettleBreak
    <2>1. /\ core' \in CoreType /\ handle' \in HandleType /\ disk' \in DiskType
          /\ budget' \in [{"retries", "aborts", "crashes", "silences"} -> Nat]
      BY <1>5, <1>8, FailClosedTyped DEF SettleBreak, TypeOK
    <2> QED BY <1>0, <1>8, <2>1 DEF SettleBreak, Settled, TypeOK
  <1> QED BY <1>1, <1>2, <1>3, <1>4, <1>6, <1>7, <1>8, <1>9, <1>10 DEF Turn

LEMMA CrashTyped ==
    ASSUME TypeOK, Crash \/ Restart
    PROVE  TypeOK'
  <1>1. CASE Crash
    <2>1. handle' \in HandleType /\ session' \in SessionType
      BY <1>1 DEF Crash, NoHandle, NoSession, HandleType, HandleStatus, SessionType
    <2>2. turn' \in TurnType /\ desk' \in DeskType
      BY <1>1 DEF Crash, Nobody, TurnType, DeskType, Text
    <2>3. ledger' \in LedgerType
      BY <1>1 DEF Crash, Blank, Entry, TypeOK, LedgerType
    <2> QED BY <1>1, <2>1, <2>2, <2>3, SpendTyped DEF Crash, TypeOK
  <1>2. CASE Restart
    <2>0. \A status \in HandleStatus : Recovered(status) \in HandleType
      BY DEF Recovered, NoHandle, HandleType, TypeOK, DiskType
    <2>1. NoHandle \in HandleType /\ {"fail_closed", "awaiting_user", "idle"} \subseteq HandleStatus
      BY DEF NoHandle, HandleType, HandleStatus
    <2>2. ledger' \in LedgerType
      BY <1>2 DEF Restart, TypeOK, LedgerType
    <2>3. CASE WasRunning /\ Recover
      <3>1. handle' \in HandleType
        BY <2>0, <2>1, <2>3 DEF Recover
      <3>2. disk' \in DiskType
        BY <2>1, <2>3 DEF Recover, TypeOK, DiskType
      <3>3. /\ core' \in CoreType
            /\ budget' \in [{"retries", "aborts", "crashes", "silences"} -> Nat]
        BY <2>3, HeardTyped, SpendTyped DEF Recover, TypeOK, Open, Final
      <3> QED BY <1>2, <2>2, <3>1, <3>2, <3>3 DEF Restart, TypeOK
    <2>4. CASE /\ handle' \in {NoHandle, Recovered("idle"), Recovered(disk.status)}
               /\ UNCHANGED <<core, disk>>
               /\ budget' = budget \/ Spend("silences")
      <3>1. handle' \in HandleType
        BY <2>0, <2>1, <2>4 DEF TypeOK, DiskType
      <3>2. budget' \in [{"retries", "aborts", "crashes", "silences"} -> Nat]
        BY <2>4, SpendTyped DEF TypeOK
      <3> QED BY <1>2, <2>2, <2>4, <3>1, <3>2 DEF Restart, TypeOK
    <2> QED BY <1>2, <2>3, <2>4 DEF Restart
  <1> QED BY <1>1, <1>2

LEMMA NextTyped == TypeOK /\ [Next]_vars => TypeOK'
  <1>1. ASSUME TypeOK, UNCHANGED vars PROVE TypeOK'
    BY <1>1 DEF vars, TypeOK
  <1> QED BY <1>1, RequestsTyped, MessagesTyped, DispatchTyped, TurnTyped, CrashTyped DEF Next

-----------------------------------------------------------------------------
(* The ledger and the dispatch.                                            *)

\* What dispatching looks at, and what most steps leave alone.
Handed == <<desk, ledger, given, handle.up>>

LEMMA HandedUnchanged ==
    ASSUME DispatchInv, LedgerInv, GivenAtMostOnce, UNCHANGED Handed,
           request' = "starting" => request = "starting" \/ handle.up
    PROVE  DispatchInv' /\ LedgerInv' /\ GivenAtMostOnce'
  BY DEF Handed, DispatchInv, LedgerInv, GivenAtMostOnce

LEMMA MostLeaveItAlone ==
    ASSUME TypeOK,
           \/ Create \/ CreateAgain \/ Abort \/ Register \/ StartAgent \/ StartedAlready
           \/ StartRefused \/ AbortCall \/ AbortCommit \/ AbortFails \/ Turn \/ NotKept
           \/ Break
           \/ \E m \in Message : Ask(m) \/ AskAgain(m) \/ Answer(m)
    PROVE  /\ UNCHANGED Handed
           /\ request' = "starting" => request = "starting" \/ handle.up
  <1>1. CASE \/ Create \/ CreateAgain \/ Abort \/ StartedAlready \/ StartRefused
             \/ AbortCommit \/ AbortFails
    BY <1>1 DEF Create, CreateAgain, Abort, StartedAlready, StartRefused, AbortCommit,
       AbortFails, runtime, Handed
  <1>2. CASE \E m \in Message : Ask(m) \/ AskAgain(m) \/ Answer(m)
    BY <1>2 DEF Ask, AskAgain, Send, Answer, runtime, Handed
  <1>3. CASE Register
    BY <1>3 DEF Register, NoHandle, Handed
  <1>4. CASE StartAgent
    BY <1>4 DEF StartAgent, TypeOK, HandleType, Handed
  <1>5. CASE AbortCall
    BY <1>5 DEF AbortCall, TypeOK, HandleType, Handed
  <1>6. ASSUME NEW s, Local(s) PROVE handle'.up = handle.up
    BY <1>6 DEF Local, TypeOK, HandleType
  <1>7. ASSUME Seal \/ Await \/ FailClosed PROVE handle'.up = handle.up
    BY <1>6, <1>7 DEF Seal, Await, FailClosed, TellingFails
  <1>8. CASE Turn \/ NotKept \/ Break
    <2>1. CASE KeepsText \/ NotKept \/ TakeSteer \/ Reply \/ Stop \/ Break
      BY <1>6, <2>1 DEF KeepsText, NotKept, TakeSteer, Reply, Stop, Break, EndTurn, Handed
    <2>2. CASE SettleReply \/ SettleBreak
      BY <1>7, <2>2 DEF SettleReply, SettleBreak, Settled, Handed
    <2>3. CASE SettleStop
      BY <2>3 DEF SettleStop, Settled, TypeOK, HandleType, Handed
    <2> QED BY <1>8, <2>1, <2>2, <2>3 DEF Turn
  <1> QED BY <1>1, <1>2, <1>3, <1>4, <1>5, <1>8

\* What is known of the message on the desk is known of every message it could be.
LEMMA DispatchKept ==
    ASSUME TypeOK, DispatchInv, LedgerInv, GivenAtMostOnce,
           \/ IntendStart \/ Dispatch \/ NoAssembly \/ Crash \/ Restart
           \/ \E m \in Message : Intend(m)
    PROVE  DispatchInv' /\ LedgerInv' /\ GivenAtMostOnce'
  <1> USE TaskAssumption DEF Text
  <1>0. /\ desk.text \in Text /\ ledger.mem \in [Message -> Entry]
        /\ ledger.disk \in [Message -> Entry] /\ given \in [Text -> Nat]
    BY DEF TypeOK, DeskType, LedgerType
  <1>1. CASE IntendStart
    BY <1>1 DEF IntendStart, At, DispatchInv, LedgerInv, GivenAtMostOnce
  <1>2. ASSUME NEW m \in Message, Intend(m)
        PROVE  DispatchInv' /\ LedgerInv' /\ GivenAtMostOnce'
    <2>1. CASE ledger' = ledger /\ desk' = desk
      BY <1>2, <2>1 DEF Intend, DispatchInv, LedgerInv, GivenAtMostOnce
    <2>2. CASE /\ ledger' = [mem |-> [ledger.mem EXCEPT ![m] = "in_progress"],
                             disk |-> [ledger.mem EXCEPT ![m] = "in_progress"]]
               /\ desk' = [stage |-> "check", text |-> m]
      <3>1. handle.up /\ ledger.mem[m] = "none"
        BY <1>2 DEF Intend, Known
      <3>2. /\ handle' = handle /\ request' = request /\ given' = given
        BY <1>2 DEF Intend
      <3>3. given[m] = 0
        BY <1>0, <3>1 DEF LedgerInv
      <3>4. /\ ledger'.mem = [ledger.mem EXCEPT ![m] = "in_progress"]
            /\ ledger'.disk = [ledger.mem EXCEPT ![m] = "in_progress"]
        BY <2>2
      <3>5. LedgerInv'
        BY <1>0, <3>1, <3>2, <3>4 DEF LedgerInv
      <3>6. DispatchInv'
        BY <1>0, <2>2, <3>1, <3>2, <3>3, <3>4 DEF DispatchInv
      <3> QED BY <3>2, <3>5, <3>6 DEF GivenAtMostOnce
    <2> QED BY <1>2, <2>1, <2>2 DEF Intend, At
  <1>3. CASE Check
    <2>1. desk.stage = "check" /\ handle.up
      BY <1>3 DEF Check, DispatchInv
    <2>2. desk'.text = desk.text
      BY <1>3 DEF Check, At
    <2>3. \/ given' = given /\ desk'.stage # "none"
          \/ given' = [given EXCEPT ![desk.text] = @ + 1] /\ desk'.stage = "record"
      BY <1>3 DEF Check, At
    <2>4. UNCHANGED <<handle, request, ledger>>
      BY <1>3 DEF Check
    <2>5. DispatchInv'
      BY <1>0, <2>1, <2>2, <2>3, <2>4 DEF DispatchInv
    <2>6. LedgerInv' /\ GivenAtMostOnce'
      BY <1>0, <2>1, <2>3, <2>4 DEF DispatchInv, LedgerInv, GivenAtMostOnce
    <2> QED BY <2>5, <2>6
  <1>4. CASE NoAssembly
    BY <1>4 DEF NoAssembly, At, DispatchInv, LedgerInv, GivenAtMostOnce
  <1>5. CASE Announce
    <2>1. handle'.up = handle.up
      BY <1>5 DEF Announce, TellingFails, FailClosed, Local, TypeOK, HandleType
    <2>2. /\ desk.stage = "announce" /\ desk'.stage \in {"prompt", "release"}
          /\ desk'.text = desk.text /\ UNCHANGED <<request, ledger, given>>
      BY <1>5 DEF Announce, At
    <2> QED BY <2>1, <2>2 DEF DispatchInv, LedgerInv, GivenAtMostOnce
  <1>6. CASE Prompt
    <2>1. desk.stage = "prompt" /\ handle'.up = handle.up
      BY <1>6 DEF Prompt, TypeOK, HandleType
    <2>2. /\ desk'.text = desk.text /\ desk'.stage = "record" /\ UNCHANGED <<request, ledger>>
          /\ given' = [given EXCEPT ![desk.text] = @ + 1]
      BY <1>6 DEF Prompt, At
    <2>3. DispatchInv'
      BY <2>1, <2>2 DEF DispatchInv
    <2>4. LedgerInv' /\ GivenAtMostOnce'
      BY <1>0, <2>1, <2>2 DEF DispatchInv, LedgerInv, GivenAtMostOnce
    <2> QED BY <2>3, <2>4
  <1>7. CASE Record
    <2>1. /\ UNCHANGED <<handle, given>> /\ desk.stage = "record" /\ desk'.stage = "none"
          /\ request' = "starting" => request = "starting"
      BY <1>7 DEF Record, Answered, Nobody
    <2>2. \/ ledger' = ledger
          \/ /\ ledger'.mem = [ledger.mem EXCEPT ![desk.text] = "completed"]
             /\ ledger'.disk \in {ledger.disk, [ledger.mem EXCEPT ![desk.text] = "completed"]}
      BY <1>7 DEF Record, Note
    <2>3. handle.up
      BY <2>1 DEF DispatchInv
    <2> QED BY <1>0, <2>1, <2>2, <2>3 DEF DispatchInv, LedgerInv, GivenAtMostOnce
  <1>8. CASE Release
    <2>1. /\ UNCHANGED given /\ desk.stage = "release" /\ desk'.stage = "none"
          /\ request' = "starting" => request = "starting"
      BY <1>8 DEF Release, Answered, Nobody
    <2>2. \/ ledger' = ledger
          \/ /\ desk.text # Start
             /\ ledger'.mem = [ledger.mem EXCEPT ![desk.text] = "none"]
             /\ ledger'.disk = [ledger.mem EXCEPT ![desk.text] = "none"]
      BY <1>8 DEF Release, Note
    <2>3. handle.up /\ handle'.up
      BY <1>8, <2>1 DEF Release, DispatchInv, TypeOK, HandleType
    <2> QED BY <1>0, <2>1, <2>2, <2>3 DEF DispatchInv, LedgerInv, GivenAtMostOnce
  <1>9. CASE Crash
    <2>1. /\ ~handle'.up /\ desk'.stage = "none" /\ request' # "starting"
          /\ ledger'.disk = ledger.disk /\ given' = given
      BY <1>0, <1>9 DEF Crash, NoHandle, Nobody, TypeOK, LedgerType
    <2> QED BY <2>1 DEF DispatchInv, LedgerInv, GivenAtMostOnce
  <1>10. CASE Restart
    <2>1. ~handle.up /\ UNCHANGED <<desk, request, given>>
      BY <1>10 DEF Restart
    <2>2. ledger'.disk = ledger.disk /\ ledger'.mem = ledger.disk
      BY <1>10 DEF Restart, TypeOK, LedgerType
    <2> QED BY <2>1, <2>2 DEF DispatchInv, LedgerInv, GivenAtMostOnce
  <1> QED BY <1>1, <1>2, <1>3, <1>4, <1>5, <1>6, <1>7, <1>8, <1>9, <1>10 DEF Dispatch

-----------------------------------------------------------------------------
(* Success.                                                                *)

\* A step that leaves no new "succeeded" with the runtime and keeps Core's.
LEMMA SuccessUnchanged ==
    ASSUME OnlySidesSucceed, LocalSuccessIsCores, role' = role,
           "succeeded" \in {handle'.status, disk'.status} =>
              "succeeded" \in {handle.status, disk.status},
           role = "side" /\ core.status = "succeeded" => core'.status = "succeeded"
    PROVE  OnlySidesSucceed' /\ LocalSuccessIsCores'
  BY DEF OnlySidesSucceed, LocalSuccessIsCores

\* A side task that succeeded is not made anything else by a callback.
LEMMA SuccessStays ==
    ASSUME TypeOK, role = "side", core.status = "succeeded"
    PROVE  /\ \A to : Allowed(to) => to = "succeeded"
           /\ \A to : Heard(to) => core'.status = "succeeded"
           /\ FailClosed => core'.status = "succeeded"
           /\ \A to : TellingFails(to) => core'.status = "succeeded"
  <1>1. \A to : Allowed(to) => to = "succeeded"
    BY DEF Allowed, Open
  <1>2. \A to : Heard(to) => core'.status = "succeeded"
    BY <1>1 DEF Heard, Become, TypeOK, CoreType
  <1>3. FailClosed => core'.status = "succeeded"
    BY <1>2 DEF FailClosed
  <1>4. \A to : TellingFails(to) => core'.status = "succeeded"
    BY <1>1, <1>3 DEF TellingFails, TypeOK, CoreType
  <1> QED BY <1>1, <1>2, <1>3, <1>4

LEMMA SuccessKept ==
    ASSUME TypeOK, OnlySidesSucceed, LocalSuccessIsCores, Next
    PROVE  OnlySidesSucceed' /\ LocalSuccessIsCores'
  <1>0. /\ handle \in HandleType /\ disk \in DiskType /\ core \in CoreType
        /\ role \in {"side", "project"}
    BY TaskAssumption DEF TypeOK
  <1>1. ASSUME NEW s, s # "succeeded", Local(s), UNCHANGED <<core, role>>
        PROVE  OnlySidesSucceed' /\ LocalSuccessIsCores'
    BY <1>0, <1>1 DEF Local, HandleType, DiskType, OnlySidesSucceed, LocalSuccessIsCores
  \* A callback that fails, or one that fails closed, seals nothing at the runtime.
  <1>2. ASSUME FailClosed \/ \E to : TellingFails(to), role' = role
        PROVE  OnlySidesSucceed' /\ LocalSuccessIsCores'
    <2>1. Local("fail_closed")
      BY <1>2 DEF FailClosed, TellingFails
    <2>2. role = "side" /\ core.status = "succeeded" => core'.status = "succeeded"
      BY <1>2, SuccessStays
    <2> QED BY <1>0, <1>2, <2>1, <2>2, SuccessUnchanged DEF Local, HandleType, DiskType
  <1>3. CASE \/ CreateAgain \/ StartRefused \/ IntendStart \/ Check \/ NoAssembly
             \/ Record \/ TakeSteer \/ NotKept
             \/ \E m \in Message : Ask(m) \/ AskAgain(m) \/ Answer(m) \/ Intend(m)
    BY <1>3, SuccessUnchanged DEF CreateAgain, StartRefused, IntendStart, Check, NoAssembly,
       Record, TakeSteer, NotKept, Ask, AskAgain, Send, Answer, Intend, runtime
  <1>4. CASE Create \/ Abort \/ AbortFails
    BY <1>0, <1>4, SuccessUnchanged DEF Create, Abort, AbortFails, runtime, CoreType
  <1>5. CASE Register \/ StartAgent
    <2>1. UNCHANGED <<core, role>>
      BY <1>5 DEF Register, StartAgent
    <2>2. CASE Register
      <3>1. \/ handle' = handle /\ disk' = disk
            \/ handle'.status = "idle" /\ disk'.status = "running"
        <4>1. CASE handle.there
          BY <2>2, <4>1 DEF Register
        <4>2. CASE ~handle.there
          <5>1. handle' = [NoHandle EXCEPT !.status = "idle", !.there = TRUE]
            BY <2>2, <4>2 DEF Register
          <5>2. disk'.status = "running"
            BY <2>2, <4>2 DEF Register
          <5> QED BY <5>1, <5>2 DEF NoHandle
        <4> QED BY <4>1, <4>2
      <3> QED BY <2>1, <3>1, SuccessUnchanged
    <2>3. CASE StartAgent
      <3>1. handle'.status = handle.status /\ disk'.status = "running"
        BY <1>0, <2>3 DEF StartAgent, HandleType, DiskType
      <3> QED BY <2>1, <3>1, SuccessUnchanged
    <2> QED BY <1>5, <2>2, <2>3
  <1>6. CASE StartedAlready \/ AbortCommit
    BY <1>0, <1>6, SuccessUnchanged DEF StartedAlready, AbortCommit, runtime, CoreType, Open
  <1>7. CASE AbortCall
    <2>1. session.status # "succeeded"
      BY DEF TypeOK, SessionType
    <2> QED BY <1>0, <1>7, <2>1, SuccessUnchanged DEF AbortCall, Synced, HandleType
  <1>8. CASE Announce
    <2>1. CASE handle' = handle /\ disk' = disk
      <3>1. role = "side" /\ core.status = "succeeded" => core'.status = "succeeded"
        BY <1>8, SuccessStays DEF Announce
      <3> QED BY <1>8, <2>1, <3>1, SuccessUnchanged DEF Announce
    <2>2. CASE TellingFails("running")
      BY <1>2, <1>8, <2>2 DEF Announce
    <2> QED BY <1>8, <2>1, <2>2 DEF Announce
  <1>9. CASE Prompt \/ KeepsText
    <2>1. /\ handle'.status \in {handle.status, "running"}
          /\ disk'.status \in {disk.status, "running"} /\ UNCHANGED <<core, role>>
      BY <1>0, <1>9 DEF Prompt, KeepsText, HandleType, DiskType
    <2> QED BY <2>1, SuccessUnchanged
  <1>10. CASE Release
    BY <1>0, <1>10, SuccessUnchanged DEF Release, HandleType, DiskType
  <1>11. CASE Reply \/ Stop \/ Break
    BY <1>1, <1>11 DEF Reply, Stop, Break, EndTurn
  <1>12. ASSUME Await, role' = role PROVE OnlySidesSucceed' /\ LocalSuccessIsCores'
    <2>1. CASE TellingFails("awaiting_user")
      BY <1>2, <1>12, <2>1
    <2>2. CASE Heard("awaiting_user") /\ Local("awaiting_user")
      <3>1. role = "side" /\ core.status = "succeeded" => core'.status = "succeeded"
        BY <2>2, SuccessStays
      <3> QED BY <1>0, <1>12, <2>2, <3>1, SuccessUnchanged DEF Local, HandleType, DiskType
    <2> QED BY <1>12, <2>1, <2>2 DEF Await
  <1>13. CASE SettleReply
    <2>1. CASE role = "side" /\ Seal
      <3>1. CASE Become("succeeded") /\ Local("succeeded")
        <4>1. core'.status = "succeeded" /\ role' = "side"
          BY <1>0, <1>13, <2>1, <3>1 DEF Become, CoreType, SettleReply, Settled
        <4> QED BY <4>1 DEF OnlySidesSucceed, LocalSuccessIsCores
      <3> QED BY <1>2, <1>13, <2>1, <3>1 DEF Seal, SettleReply, Settled
    <2>2. CASE Await
      BY <1>12, <1>13, <2>2 DEF SettleReply, Settled
    <2>3. CASE UNCHANGED <<core, handle, disk>>
      BY <1>13, <2>3, SuccessUnchanged DEF SettleReply, Settled
    <2> QED BY <1>13, <2>1, <2>2, <2>3 DEF SettleReply
  <1>14. CASE SettleStop
    BY <1>0, <1>14, SuccessUnchanged DEF SettleStop, Settled, HandleType
  <1>15. CASE SettleBreak
    <2>1. role' = role
      BY <1>15 DEF SettleBreak, Settled
    <2> QED BY <1>2, <1>12, <1>15, <2>1, SuccessUnchanged DEF SettleBreak
  <1>16. CASE Crash
    BY <1>0, <1>16, SuccessUnchanged DEF Crash, NoHandle
  <1>17. CASE Restart
    <2>1. role' = role
      BY <1>17 DEF Restart
    <2>2. \A status : Recovered(status).status = status
      BY DEF Recovered, NoHandle
    <2>3. CASE WasRunning /\ Recover
      <3>1. handle'.status # "succeeded" /\ disk'.status # "succeeded"
        BY <1>0, <2>2, <2>3 DEF Recover, DiskType
      <3> QED BY <3>1 DEF OnlySidesSucceed, LocalSuccessIsCores
    <2>4. CASE /\ handle' \in {NoHandle, Recovered("idle"), Recovered(disk.status)}
               /\ UNCHANGED <<core, disk>>
      <3>1. handle'.status \in {"none", "idle", disk.status}
        BY <2>2, <2>4 DEF NoHandle
      <3> QED BY <2>1, <2>4, <3>1, SuccessUnchanged
    <2> QED BY <1>17, <2>3, <2>4 DEF Restart
  <1> QED BY <1>3, <1>4, <1>5, <1>6, <1>7, <1>8, <1>9, <1>10, <1>11, <1>13, <1>14, <1>15,
             <1>16, <1>17 DEF Next, Requests, Dispatch, Turn

-----------------------------------------------------------------------------
(* The invariant.                                                          *)

LEMMA TaskInvInit == Init => TaskInv
  <1> SUFFICES ASSUME Init PROVE TaskInv
    OBVIOUS
  <1>1. DispatchInv /\ LedgerInv /\ GivenAtMostOnce
    BY DEF Init, Nobody, Text, DispatchInv, LedgerInv, GivenAtMostOnce
  <1>2. OnlySidesSucceed /\ LocalSuccessIsCores
    BY DEF Init, NoHandle, OnlySidesSucceed, LocalSuccessIsCores
  <1> QED BY <1>1, <1>2, InitTyped DEF TaskInv

LEMMA TaskInvStep == TaskInv /\ [Next]_vars => TaskInv'
  <1> SUFFICES ASSUME TaskInv, [Next]_vars PROVE TaskInv'
    OBVIOUS
  <1> USE DEF TaskInv
  <1>1. TypeOK'
    BY NextTyped
  <1>2. CASE Next
    <2>1. OnlySidesSucceed' /\ LocalSuccessIsCores'
      BY <1>2, SuccessKept
    <2>2. DispatchInv' /\ LedgerInv' /\ GivenAtMostOnce'
      BY <1>2, DispatchKept, MostLeaveItAlone, HandedUnchanged DEF Next, Requests
    <2> QED BY <1>1, <2>1, <2>2
  <1>3. CASE UNCHANGED vars
    BY <1>1, <1>3 DEF vars, DispatchInv, LedgerInv, OnlySidesSucceed, GivenAtMostOnce,
       LocalSuccessIsCores
  <1> QED BY <1>2, <1>3

\* The types, the dispatch, the ledger and the two successes, together, are kept by
\* every step of Core, of the runtime, of its crashes and of the people.
THEOREM TaskInvariant == Spec => []TaskInv
  BY TaskInvInit, TaskInvStep, PTL DEF Spec

\* No message is handed to the model twice, however often a request is repeated and
\* wherever the runtime crashes (the intent in the ledger precedes the dispatch).
THEOREM MessagesGivenOnce == Spec => []GivenAtMostOnce
  <1>1. TaskInv => GivenAtMostOnce
    BY DEF TaskInv
  <1> QED BY <1>1, TaskInvariant, PTL

\* The runtime holds a task succeeded only if Core has sealed its result, whatever
\* callbacks are lost or refused and whenever it crashes (finalizeResult).
THEOREM SuccessIsShared == Spec => []LocalSuccessIsCores
  <1>1. TaskInv => LocalSuccessIsCores
    BY DEF TaskInv
  <1> QED BY <1>1, TaskInvariant, PTL

-----------------------------------------------------------------------------
(***************************************************************************)
(* The stream of a task.                                                   *)
(***************************************************************************)

Kind == {"delta", "part", "done", "reset"}
Event == [seq : Nat, from : Nat, to : Nat, kind : Kind]
Hub == [events : Seq(Event), seq : Nat, pending : Seq([part : Part, from : Nat])]

\* The seq before the first event that is retained.
Before(h) == h.seq - Len(h.events)

\* What a hub that started after emission b has covered with its events.
EndOf(h, b) == IF h.events = <<>> THEN b ELSE h.events[Len(h.events)].to

\* The window of a hub that started after emission b and has had n: its events are
\* in order of seq, stand for consecutive emissions, and with the pending deltas for
\* all of them up to the last.
Window(h, b, n) ==
    /\ h \in Hub
    /\ Len(h.events) = IF h.seq < Retain THEN h.seq ELSE Retain
    /\ \A i \in DOMAIN h.events :
          /\ h.events[i].seq = Before(h) + i
          /\ b < h.events[i].from /\ h.events[i].from <= h.events[i].to
          /\ h.events[i].kind # "reset"
          /\ i > 1 => h.events[i].from = h.events[i - 1].to + 1
          /\ \A j \in DOMAIN h.events : i < j => h.events[i].to < h.events[j].from
    /\ Before(h) = 0 /\ h.events # <<>> => h.events[1].from = b + 1
    /\ h.pending = <<>> => EndOf(h, b) = n
    /\ h.pending # <<>> =>
          Len(h.pending) = 1 /\ h.pending[1].from = EndOf(h, b) + 1 /\ h.pending[1].from <= n
    /\ b <= n

\* What is covered up to a seq that is not before the window.
Covered(h, b, s) ==
    IF s = h.seq THEN EndOf(h, b) ELSE h.events[s - Before(h) + 1].from - 1

\* Who has seen up to seq s has had the emissions up to n, and lacks some that are
\* gone if s is before the window.
Placed(h, b, s, n) ==
    /\ s <= h.seq
    /\ s >= Before(h) => n = Covered(h, b, s)
    /\ s < Before(h) => n + 1 < h.events[1].from

\* A hub grows: whoever has had something has it still.
Grows(h, g, b) ==
    /\ h.seq <= g.seq
    /\ \A s, n \in Nat : Placed(h, b, s, n) => Placed(g, b, s, n)

\* The last done event, if it is retained, was emission t.
LastDone(h, b, t) ==
    LET dones == {i \in DOMAIN h.events : h.events[i].kind = "done"}
    IN  /\ dones # {} => \E m \in dones : h.events[m].to = t /\ \A i \in dones : i <= m
        /\ dones = {} => t <= IF h.events = <<>> THEN b ELSE h.events[1].from - 1

\* What a reader has not been given yet, in events.
Unflushed(h) == IF h.pending = <<>> THEN 0 ELSE 1
Lag(c) == hub.seq + Unflushed(hub) - conn[c].cursor

\* Readers do not fall further behind than the emissions since they were woken.
ReaderInv(c) ==
    /\ conn[c].pc = "closed" => written[c] = <<>>
    /\ conn[c].pc # "closed" => conn[c].cursor <= hub.seq
    /\ conn[c].pc = "waiting" => conn[c].cursor = hub.seq
    /\ conn[c].pc \in {"loop", "woken"} => Lag(c) <= burst + 1
    /\ cut[c] => written[c] # <<>>

\* Events that follow each other up to seq s.
Chain(w, h, b, s) ==
    /\ \A i \in DOMAIN w :
          /\ b <= w[i].to
          /\ Placed(h, b, w[i].seq, w[i].to)
          /\ i > 1 => /\ w[i].from = w[i - 1].to + 1
                      /\ w[i].kind # "reset"
          /\ \A j \in DOMAIN w : i < j => w[i].seq < w[j].seq
    /\ w # <<>> => w[Len(w)].seq = s

\* What a client has, what is on its way and where it would go on agree.
ClientInv(c) ==
    LET w == written[c]
        has == Larger(known[c], base)
    IN  /\ lastId[c] > 0 => known[c] >= base /\ Placed(hub, base, lastId[c], known[c])
        /\ conn[c].pc # "closed" =>
              /\ lastId[c] <= conn[c].cursor
              /\ w = <<>> => Placed(hub, base, conn[c].cursor, has)
              /\ w # <<>> => lastId[c] <= w[1].seq
              /\ w # <<>> /\ ~cut[c] /\ w[1].kind # "reset" => w[1].from = has + 1

HubTypeOK ==
    /\ conn \in [Client -> [pc : {"closed", "loop", "waiting", "woken"}, cursor : Nat]]
    /\ written \in [Client -> Seq(Event)]
    /\ lastId \in [Client -> Nat] /\ known \in [Client -> Nat]
    /\ cut \in [Client -> BOOLEAN] /\ old \subseteq Client
    /\ {sent, base, lastDone, burst} \subseteq Nat /\ lastDone <= sent /\ burst <= MaxBurst

\* All that holds of one client.
Safe(c) ==
    /\ ReaderInv(c)
    /\ Chain(written[c], hub, base, conn[c].cursor)
    /\ c \notin old => ClientInv(c)

StreamInv ==
    /\ HubTypeOK
    /\ Window(hub, base, sent)
    /\ LastDone(hub, base, lastDone)
    /\ \A c \in Client : Safe(c)


-----------------------------------------------------------------------------
(* What the operators of the hub do.                                        *)

LEMMA WindowFacts ==
    ASSUME NEW h, NEW b \in Nat, NEW n \in Nat, Window(h, b, n)
    PROVE  /\ h.events \in Seq(Event) /\ h.seq \in Nat /\ Before(h) \in Nat
           /\ DOMAIN h.events = 1..Len(h.events) /\ Len(h.events) \in Nat
           /\ Before(h) + Len(h.events) = h.seq /\ Len(h.events) <= Retain
           /\ Before(h) > 0 => Len(h.events) = Retain
           /\ h.events = <<>> <=> Len(h.events) = 0
           /\ \A i \in DOMAIN h.events : h.events[i] \in Event
  <1>1. h.events \in Seq(Event) /\ h.seq \in Nat
    BY DEF Window, Hub
  <1>2. DOMAIN h.events = 1..Len(h.events) /\ Len(h.events) \in Nat
    BY <1>1
  <1>3. h.events = <<>> <=> Len(h.events) = 0
    BY <1>1
  <1>4. Len(h.events) = IF h.seq < Retain THEN h.seq ELSE Retain
    BY DEF Window
  <1>5. \A i \in DOMAIN h.events : h.events[i] \in Event
    BY <1>1, <1>2, ElementOfSeq
  <1> QED BY <1>1, <1>2, <1>3, <1>4, <1>5, HubAssumption DEF Before

\* Two events are retained at least.
LEMMA RetainsTwo == Retain \in Nat /\ Retain >= 2
  BY HubAssumption

\* At most the first event falls out of the window.
LEMMA TrimFacts ==
    ASSUME NEW S, NEW s \in Seq(S), Len(s) <= Retain + 1,
           NEW k \in {0, 1}, k = 1 <=> Len(s) > Retain
    PROVE  /\ Trim(s) \in Seq(S) /\ Len(Trim(s)) = Len(s) - k
           /\ \A i \in 1..(Len(s) - k) : Trim(s)[i] = s[i + k]
  <1> DEFINE N == Len(s)
  <1>1. /\ N \in Nat /\ Retain \in Nat /\ Retain >= 2
        /\ \A i \in 1..N : s[i] \in S
    BY RetainsTwo
  <1>2. CASE N > Retain
    <2>1. N - Retain + 1 = 2 /\ k = 1 /\ N - 2 + 1 = N - 1
      BY <1>1, <1>2
    <2>2. Trim(s) = SubSeq(s, 2, N)
      BY <1>2, <2>1 DEF Trim
    <2>3. \A i \in 2..N : s[i] \in S
      BY <1>1
    <2>4. /\ SubSeq(s, 2, N) \in Seq(S)
          /\ Len(SubSeq(s, 2, N)) = (IF 2 <= N THEN N - 2 + 1 ELSE 0)
          /\ \A i \in 1..(N - 2 + 1) : SubSeq(s, 2, N)[i] = s[2 + i - 1]
      BY <1>1, <2>3, SubSeqProperties
    <2>5. 2 <= N /\ \A i \in 1..(N - 1) : 2 + i - 1 = i + 1
      BY <1>1, <1>2
    <2> QED BY <2>1, <2>2, <2>4, <2>5
  <1>3. CASE N <= Retain
    <2>1. Trim(s) = s /\ k = 0 /\ N - 0 = N /\ \A i \in 1..N : i + 0 = i
      BY <1>1, <1>3 DEF Trim
    <2> QED BY <2>1
  <1> QED BY <1>1, <1>2, <1>3

LEMMA PushFacts ==
    ASSUME NEW h, NEW b \in Nat, NEW n \in Nat, NEW m \in Nat, NEW kind,
           Window(h, b, n),
           NEW g, g = Push(h, n + 1, m, kind),
           NEW k \in {0, 1}, k = 1 <=> Len(h.events) = Retain
    PROVE  /\ g.seq = h.seq + 1 /\ g.pending = h.pending
           /\ g = [events |-> g.events, seq |-> g.seq, pending |-> g.pending]
           /\ Len(g.events) = Len(h.events) + 1 - k /\ Before(g) = Before(h) + k
           /\ kind \in Kind => g.events \in Seq(Event)
           /\ DOMAIN g.events = 1..Len(g.events)
           /\ g.events[Len(g.events)]
                = [seq |-> h.seq + 1, from |-> n + 1, to |-> m, kind |-> kind]
           /\ \A i \in 1..(Len(g.events) - 1) : g.events[i] = h.events[i + k]
  <1> DEFINE e == [seq |-> h.seq + 1, from |-> n + 1, to |-> m, kind |-> kind]
             N == Len(h.events)
             s == Append(h.events, e)
  <1>1. /\ N \in Nat /\ N <= Retain /\ h.events \in Seq(Event)
        /\ Retain \in Nat /\ h.seq \in Nat /\ Before(h) = h.seq - N
        /\ \A i \in 1..N : h.events[i] \in Event
    BY WindowFacts, RetainsTwo DEF Before
  <1>2. /\ Len(s) = N + 1 /\ s[N + 1] = e /\ \A i \in 1..N : s[i] = h.events[i]
        /\ s \in Seq(Event \cup {e})
    BY <1>1
  <1>3. kind \in Kind => e \in Event
    BY <1>1 DEF Event
  <1>4. g = [events |-> Trim(s), seq |-> h.seq + 1, pending |-> h.pending]
    BY DEF Push
  <1>5. g.seq = h.seq + 1 /\ g.pending = h.pending /\ g.events = Trim(s)
    BY <1>4
  <1>14. g = [events |-> g.events, seq |-> g.seq, pending |-> g.pending]
    BY <1>4
  <1> HIDE DEF s, N, e
  <1>6. Len(s) <= Retain + 1 /\ (k = 1 <=> Len(s) > Retain)
    BY <1>1, <1>2 DEF N
  <1>7. /\ Trim(s) \in Seq(Event \cup {e}) /\ Len(Trim(s)) = Len(s) - k
        /\ \A i \in 1..(Len(s) - k) : Trim(s)[i] = s[i + k]
    BY <1>2, <1>6, TrimFacts
  <1>8. Len(g.events) = N + 1 - k /\ DOMAIN g.events = 1..(N + 1 - k)
    <2>1. Len(Trim(s)) = N + 1 - k /\ DOMAIN Trim(s) = 1..Len(Trim(s))
      BY <1>1, <1>2, <1>7
    <2> QED BY <1>5, <2>1
  <1>9. Before(g) = Before(h) + k
    <2>1. Before(g) = g.seq - Len(g.events)
      BY DEF Before
    <2>2. g.seq \in Nat /\ g.seq = h.seq + 1
      BY <1>1, <1>5
    <2>3. Len(g.events) \in Int /\ Len(g.events) = N + 1 - k
      BY <1>1, <1>8
    <2>4. \A y, l \in Int : y = h.seq + 1 /\ l = N + 1 - k => y - l = h.seq - N + k
      BY <1>1
    <2>5. g.seq - Len(g.events) = h.seq - N + k
      BY <2>2, <2>3, <2>4
    <2> QED BY <1>1, <2>1, <2>5
  <1>10. g.events[N + 1 - k] = e
    <2>1. N + 1 - k \in 1..(N + 1 - k) /\ N + 1 - k + k = N + 1
      BY <1>1, <1>6, RetainsTwo DEF N
    <2> QED BY <1>2, <1>5, <1>7, <2>1
  <1>11. \A i \in 1..(N - k) : g.events[i] = h.events[i + k]
    <2>1. \A i \in 1..(N - k) : i \in 1..(N + 1 - k) /\ i + k \in 1..N
      BY <1>1
    <2>2. Len(s) - k = N + 1 - k
      BY <1>1, <1>2
    <2> QED BY <1>2, <1>5, <1>7, <2>1, <2>2
  <1>12. N + 1 - k - 1 = N - k
    BY <1>1
  <1>13. kind \in Kind => g.events \in Seq(Event)
    BY <1>3, <1>5, <1>7
  <1> QED BY <1>5, <1>8, <1>9, <1>10, <1>11, <1>12, <1>13, <1>14 DEF N, e

\* A push onto a hub without pending deltas covers what it stands for.
LEMMA PushWindow ==
    ASSUME NEW h, NEW b \in Nat, NEW n \in Nat, NEW m \in Nat, n + 1 <= m,
           NEW kind \in Kind \ {"reset"}, Window(h, b, n), h.pending = <<>>
    PROVE  Window(Push(h, n + 1, m, kind), b, m)
  <1> DEFINE g == Push(h, n + 1, m, kind)
             N == Len(h.events)
             M == Len(g.events)
  <1>1. PICK k \in {0, 1} : k = 1 <=> N = Retain
    <2>1. 0 # 1
      OBVIOUS
    <2> QED BY <2>1
  <1>2. /\ N \in Nat /\ N <= Retain /\ Retain >= 2 /\ h.seq \in Nat /\ Before(h) \in Nat
        /\ Before(h) + N = h.seq /\ (Before(h) > 0 => N = Retain)
        /\ DOMAIN h.events = 1..N /\ (h.events = <<>> <=> N = 0)
        /\ \A i \in 1..N : h.events[i] \in Event
        /\ Retain \in Nat
    BY WindowFacts, RetainsTwo
  <1>3. /\ g.seq = h.seq + 1 /\ g.pending = h.pending
        /\ M = N + 1 - k /\ Before(g) = Before(h) + k
        /\ g.events \in Seq(Event) /\ DOMAIN g.events = 1..M
        /\ g.events[M] = [seq |-> h.seq + 1, from |-> n + 1, to |-> m, kind |-> kind]
        /\ \A i \in 1..(M - 1) : g.events[i] = h.events[i + k]
    BY <1>1, PushFacts
  <1>4. g = [events |-> g.events, seq |-> g.seq, pending |-> g.pending]
    BY DEF Push
  <1>5. /\ b <= n
        /\ EndOf(h, b) = n
        /\ Before(h) = 0 /\ h.events # <<>> => h.events[1].from = b + 1
        /\ N = IF h.seq < Retain THEN h.seq ELSE Retain
        /\ h \in Hub
    BY DEF Window
  <1>6. \A i \in 1..N :
          /\ h.events[i].seq = Before(h) + i
          /\ b < h.events[i].from /\ h.events[i].from <= h.events[i].to
          /\ h.events[i].kind # "reset"
          /\ i > 1 => h.events[i].from = h.events[i - 1].to + 1
          /\ \A j \in 1..N : i < j => h.events[i].to < h.events[j].from
          /\ h.events[i].to \in Nat /\ h.events[i].from \in Nat
    BY <1>2 DEF Window, Event
  <1>7. N > 0 => h.events[N].to = n
    BY <1>2, <1>5 DEF EndOf
  <1>8. N = 0 => n = b
    BY <1>2, <1>5 DEF EndOf
  <1>9. /\ g.events[M].seq = h.seq + 1 /\ g.events[M].from = n + 1
        /\ g.events[M].to = m /\ g.events[M].kind = kind
    BY <1>3
  <1>10. M \in Nat /\ M >= 1 /\ g.events # <<>>
    <2>1. N + 1 - k \in Nat /\ N + 1 - k >= 1
      BY <1>1, <1>2
    <2>2. M \in Nat /\ M >= 1
      BY <1>3, <2>1
    <2> QED BY <1>3, <2>2
  <1> HIDE DEF g, N, M
  <1>11. g \in Hub
    <2>1. h.pending \in Seq([part : Part, from : Nat])
      BY <1>5 DEF Hub
    <2>2. g.seq \in Nat
      <3>1. g.seq = h.seq + 1
        BY <1>3
      <3> QED BY <1>2, <3>1
    <2> QED BY <1>3, <1>4, <2>1, <2>2 DEF Hub
  <1>12. M = IF g.seq < Retain THEN g.seq ELSE Retain
    <2>1. N + 1 - k = IF h.seq + 1 < Retain THEN h.seq + 1 ELSE Retain
      <3>1. /\ N \in Nat /\ Retain \in Nat /\ h.seq \in Nat /\ Before(h) \in Nat
            /\ Before(h) + N = h.seq /\ N <= Retain
        BY <1>2
      <3>2. CASE N = Retain
        <4>1. k = 1
          BY <1>1, <3>2
        <4>2. ~(h.seq + 1 < Retain)
          BY <3>1, <3>2
        <4> QED BY <3>1, <3>2, <4>1, <4>2
      <3>3. CASE N # Retain
        <4>1. k = 0
          BY <1>1, <3>3
        <4>2. N = h.seq
          BY <1>5, <3>3
        <4>3. N + 1 - k = h.seq + 1
          BY <3>1, <4>1, <4>2
        <4>4. h.seq + 1 <= Retain /\ h.seq + 1 \in Nat
          BY <3>1, <3>3, <4>2
        <4>5. ~(h.seq + 1 < Retain) => h.seq + 1 = Retain
          BY <3>1, <4>4
        <4> QED BY <4>3, <4>5
      <3> QED BY <3>2, <3>3
    <2>2. M = N + 1 - k /\ g.seq = h.seq + 1
      BY <1>3
    <2> QED BY <2>1, <2>2
  <1>13. ASSUME NEW i \in 1..(M - 1)
         PROVE  /\ g.events[i] = h.events[i + k] /\ i + k \in 1..N
                /\ g.events[i].seq = Before(g) + i
                /\ b < g.events[i].from /\ g.events[i].from <= g.events[i].to
                /\ g.events[i].kind # "reset"
                /\ i > 1 => g.events[i].from = g.events[i - 1].to + 1
                /\ g.events[i].to \in Nat /\ g.events[i].to <= n
    <2>1. i + k \in 1..N /\ i \in 1..(M - 1)
      BY <1>1, <1>2, <1>3
    <2>2. g.events[i] = h.events[i + k]
      BY <1>3, <2>1
    <2>3. Before(h) + (i + k) = Before(g) + i
      BY <1>1, <1>2, <1>3
    <2>4. i > 1 => h.events[i + k].from = h.events[i + k - 1].to + 1
      <3>1. i > 1 => i + k > 1
        BY <1>1
      <3> QED BY <1>6, <2>1, <3>1
    <2>5. i > 1 => g.events[i - 1] = h.events[i + k - 1]
      <3>1. i > 1 => i - 1 \in 1..(M - 1) /\ i - 1 + k = i + k - 1
        BY <1>1, <1>2, <1>3
      <3> QED BY <1>3, <3>1
    <2>6. h.events[i + k].to <= n
      <3>1. CASE i + k = N
        BY <1>2, <1>6, <1>7, <2>1, <3>1
      <3>2. CASE i + k # N
        <4>1. N \in 1..N /\ i + k < N
          BY <2>1, <3>2, <1>2
        <4>2. /\ h.events[i + k].to < h.events[N].from
              /\ h.events[N].from <= h.events[N].to /\ h.events[N].to = n
              /\ h.events[i + k].to \in Nat /\ h.events[N].from \in Nat
          BY <1>6, <1>7, <2>1, <4>1
        <4> QED BY <4>2
      <3> QED BY <3>1, <3>2
    <2> QED BY <1>6, <2>1, <2>2, <2>3, <2>4, <2>5, <2>6
  <1>14. M > 1 => g.events[M - 1].to = n
    <2>1. M > 1 => M - 1 \in 1..(M - 1) /\ M - 1 + k = N /\ N > 0
      BY <1>1, <1>2, <1>3, <1>10
    <2> QED BY <1>3, <1>7, <2>1
  <1>15. ASSUME NEW i \in 1..M
         PROVE  /\ g.events[i].seq = Before(g) + i
                /\ b < g.events[i].from /\ g.events[i].from <= g.events[i].to
                /\ g.events[i].kind # "reset"
                /\ i > 1 => g.events[i].from = g.events[i - 1].to + 1
                /\ \A j \in 1..M : i < j => g.events[i].to < g.events[j].from
    <2>1. CASE i = M
      <3>1. h.seq + 1 = Before(g) + M /\ b < n + 1 /\ n + 1 <= m
        <4>1. Before(h) + k + (N + 1 - k) = h.seq + 1
          BY <1>1, <1>2
        <4> QED BY <1>3, <1>5, <4>1
      <3>2. i > 1 => g.events[i].from = g.events[i - 1].to + 1
        BY <1>9, <1>14, <2>1
      <3>3. \A j \in 1..M : ~(i < j)
        BY <1>10, <2>1
      <3> QED BY <1>9, <2>1, <3>1, <3>2, <3>3
    <2>2. CASE i # M
      <3>1. i \in 1..(M - 1)
        BY <1>10, <2>2
      <3>2. ASSUME NEW j \in 1..M, i < j PROVE g.events[i].to < g.events[j].from
        <4>1. CASE j = M
          BY <1>9, <1>13, <3>1, <4>1
        <4>2. CASE j # M
          <5>1. j \in 1..(M - 1) /\ i + k < j + k
            BY <1>1, <1>10, <3>2, <4>2
          <5> QED BY <1>6, <1>13, <3>1, <5>1
        <4> QED BY <4>1, <4>2
      <3> QED BY <1>13, <3>1, <3>2
    <2> QED BY <2>1, <2>2
  <1>16. Before(g) = 0 => g.events[1].from = b + 1
    <2>1. SUFFICES ASSUME Before(g) = 0 PROVE g.events[1].from = b + 1
      OBVIOUS
    <2>2. Before(h) = 0 /\ k = 0
      BY <1>1, <1>2, <1>3, <2>1
    <2>3. CASE N = 0
      BY <1>3, <1>8, <1>9, <2>2, <2>3
    <2>4. CASE N > 0
      <3>1. 1 \in 1..(M - 1) /\ 1 + k = 1
        BY <1>2, <1>3, <2>2, <2>4
      <3> QED BY <1>2, <1>3, <1>5, <2>2, <2>4, <3>1
    <2> QED BY <1>2, <2>3, <2>4
  <1>17. EndOf(g, b) = m
    BY <1>9, <1>10 DEF EndOf, M
  <1>18. b <= m
    BY <1>5
  <1>19. g.pending = <<>>
    BY <1>3
  <1>20. DOMAIN g.events = 1..M
    BY <1>3
  <1> QED BY <1>11, <1>12, <1>15, <1>16, <1>17, <1>18, <1>19, <1>20 DEF Window, M, g

\* Whoever has had something before the push has it still.
LEMMA PushGrows ==
    ASSUME NEW h, NEW b \in Nat, NEW n \in Nat, NEW m \in Nat, n + 1 <= m,
           NEW kind \in Kind \ {"reset"}, Window(h, b, n), h.pending = <<>>
    PROVE  Grows(h, Push(h, n + 1, m, kind), b)
  <1> DEFINE g == Push(h, n + 1, m, kind)
             N == Len(h.events)
             M == Len(g.events)
  <1>1. PICK k \in {0, 1} : k = 1 <=> N = Retain
    <2>1. 0 # 1
      OBVIOUS
    <2> QED BY <2>1
  <1>2. /\ N \in Nat /\ N <= Retain /\ Retain >= 2 /\ h.seq \in Nat /\ Before(h) \in Nat
        /\ Before(h) + N = h.seq /\ (Before(h) > 0 => N = Retain)
        /\ DOMAIN h.events = 1..N
        /\ \A i \in 1..N : h.events[i] \in Event
        /\ Retain \in Nat
    BY WindowFacts, RetainsTwo
  <1>3. /\ g.seq = h.seq + 1 /\ g.pending = h.pending
        /\ M = N + 1 - k /\ Before(g) = Before(h) + k
        /\ g.events \in Seq(Event) /\ DOMAIN g.events = 1..M
        /\ g.events[M] = [seq |-> h.seq + 1, from |-> n + 1, to |-> m, kind |-> kind]
        /\ \A i \in 1..(M - 1) : g.events[i] = h.events[i + k]
    BY <1>1, PushFacts
  <1>4. g.events[M].from = n + 1 /\ EndOf(h, b) = n
    BY <1>3 DEF Window
  <1>5. \A i \in 1..N :
          /\ h.events[i].from <= h.events[i].to
          /\ i > 1 => h.events[i].from = h.events[i - 1].to + 1
          /\ h.events[i].to \in Nat /\ h.events[i].from \in Nat
    BY <1>2 DEF Window, Event
  <1> HIDE DEF g, N, M
  <1>8. M - 1 = N - k
    <2>1. M = N + 1 - k
      BY <1>3
    <2> QED BY <1>2, <2>1
  <1>6. ASSUME NEW s \in Nat, NEW x \in Nat, Placed(h, b, s, x)
        PROVE  Placed(g, b, s, x)
    <2>1. s <= h.seq /\ s <= g.seq
      BY <1>2, <1>3, <1>6 DEF Placed
    <2>2. CASE s >= Before(g)
      <3>1. s >= Before(h) /\ x = Covered(h, b, s) /\ s # g.seq
        <4>1. s >= Before(h) + k /\ s < h.seq + 1
          BY <1>2, <1>3, <2>1, <2>2
        <4>2. s >= Before(h) /\ s # h.seq + 1
          <5>1. \A x1, x2 \in Nat : s >= x1 + k /\ s < x2 + 1 => s >= x1 /\ s # x2 + 1
            OBVIOUS
          <5> QED BY <1>2, <4>1, <5>1
        <4> QED BY <1>3, <1>6, <4>2 DEF Placed
      <3>2. x = g.events[s - Before(g) + 1].from - 1
        <4>1. CASE s = h.seq
          <5>1. x = n
            BY <1>4, <3>1, <4>1 DEF Covered
          <5>2. h.seq - (Before(h) + k) + 1 = N + 1 - k
            BY <1>1, <1>2
          <5>3. s - Before(g) + 1 = M
            BY <1>3, <4>1, <5>2
          <5>4. n = (n + 1) - 1
            OBVIOUS
          <5> QED BY <1>4, <5>1, <5>3, <5>4
        <4>2. CASE s # h.seq
          <5>1. x = h.events[s - Before(h) + 1].from - 1
            BY <3>1, <4>2 DEF Covered
          <5> DEFINE i == s - Before(g) + 1
          <5>2. /\ s - (Before(h) + k) + 1 \in 1..(N - k)
                /\ s - (Before(h) + k) + 1 + k = s - Before(h) + 1
                /\ N + 1 - k - 1 = N - k
            <6>1. s >= Before(h) + k
              BY <1>3, <2>2
            <6> QED BY <1>1, <1>2, <2>1, <4>2, <6>1
          <5>3. i \in 1..(M - 1) /\ i + k = s - Before(h) + 1
            BY <1>3, <1>8, <5>2
          <5> QED BY <1>3, <5>1, <5>3
        <4> QED BY <4>1, <4>2
      <3>3. x = Covered(g, b, s)
        BY <3>1, <3>2 DEF Covered
      <3>4. ~(s < Before(g))
        BY <1>1, <1>2, <1>3, <2>2
      <3> QED BY <2>1, <3>3, <3>4 DEF Placed
    <2>3. CASE s < Before(g)
      <3>1. ~(s >= Before(g))
        BY <1>1, <1>2, <1>3, <2>3
      <3>2. /\ g.events[1] = h.events[1 + k] /\ 1 + k \in 1..N /\ N >= 2
        <4>1. N = Retain
          BY <1>1, <1>2, <1>3, <2>3
        <4>2. 1 \in 1..(N - k) /\ 1 + k \in 1..N /\ N >= 2
          BY <1>1, <1>2, <4>1
        <4>3. 1 \in 1..(M - 1)
          BY <1>8, <4>2
        <4> QED BY <1>3, <4>2, <4>3
      <3>3. x + 1 < g.events[1].from
        <4>1. CASE s < Before(h)
          <5>1. x + 1 < h.events[1].from
            BY <1>6, <4>1 DEF Placed
          <5>2. CASE k = 0
            BY <3>2, <5>1, <5>2
          <5>3. CASE k = 1
            <6>1. 1 \in 1..N /\ 2 \in 1..N /\ 2 - 1 = 1 /\ 2 > 1 /\ 1 + k = 2
              BY <1>2, <3>2, <5>3
            <6>2. /\ h.events[2].from = h.events[1].to + 1
                  /\ h.events[1].from <= h.events[1].to
                  /\ h.events[1].to \in Nat /\ h.events[1].from \in Nat
              BY <1>5, <6>1
            <6> QED BY <3>2, <5>1, <6>1, <6>2
          <5> QED BY <5>2, <5>3
        <4>2. CASE s >= Before(h)
          <5>1. k = 1 /\ s = Before(h) /\ s # h.seq /\ s - Before(h) + 1 = 1
            <6>1. s < Before(h) + k /\ s >= Before(h) /\ N >= 2
              BY <1>3, <2>3, <3>2, <4>2
            <6> QED BY <1>2, <6>1
          <5>2. x = h.events[1].from - 1
            BY <1>6, <4>2, <5>1 DEF Placed, Covered
          <5>3. 1 \in 1..N /\ 2 \in 1..N /\ 2 - 1 = 1 /\ 2 > 1 /\ 1 + k = 2
            BY <1>2, <3>2, <5>1
          <5>4. /\ h.events[2].from = h.events[1].to + 1
                /\ h.events[1].from <= h.events[1].to
                /\ h.events[1].to \in Nat /\ h.events[1].from \in Nat
            BY <1>5, <5>3
          <5> QED BY <3>2, <5>2, <5>3, <5>4
        <4> QED BY <1>2, <4>1, <4>2
      <3> QED BY <2>1, <3>1, <3>3 DEF Placed
    <2> QED BY <1>1, <1>2, <1>3, <2>2, <2>3
  <1>7. h.seq <= g.seq
    BY <1>2, <1>3
  <1> QED BY <1>6, <1>7 DEF Grows, g

\* A push moves the last done event if it is one.
LEMMA PushLastDone ==
    ASSUME NEW h, NEW b \in Nat, NEW n \in Nat, NEW m \in Nat, n + 1 <= m,
           NEW kind \in Kind \ {"reset"}, Window(h, b, n), h.pending = <<>>
    PROVE  \A t \in Nat :
              LastDone(h, b, t)
              => LastDone(Push(h, n + 1, m, kind), b, IF kind = "done" THEN m ELSE t)
  <1> DEFINE g == Push(h, n + 1, m, kind)
             N == Len(h.events)
             M == Len(g.events)
  <1>1. PICK k \in {0, 1} : k = 1 <=> N = Retain
    <2>1. 0 # 1
      OBVIOUS
    <2> QED BY <2>1
  <1>2. /\ N \in Nat /\ N <= Retain /\ Retain >= 2
        /\ DOMAIN h.events = 1..N /\ Retain \in Nat /\ (h.events = <<>> <=> N = 0)
        /\ \A i \in 1..N : h.events[i] \in Event
    BY WindowFacts, RetainsTwo
  <1>3. /\ g.seq = h.seq + 1 /\ g.pending = h.pending
        /\ M = N + 1 - k /\ Before(g) = Before(h) + k
        /\ g.events \in Seq(Event) /\ DOMAIN g.events = 1..M
        /\ g.events[M] = [seq |-> h.seq + 1, from |-> n + 1, to |-> m, kind |-> kind]
        /\ \A i \in 1..(M - 1) : g.events[i] = h.events[i + k]
    BY <1>1, PushFacts
  <1> SUFFICES ASSUME NEW t \in Nat, LastDone(h, b, t)
               PROVE  LastDone(g, b, IF kind = "done" THEN m ELSE t)
    OBVIOUS
  <1> DEFINE hd == {i \in DOMAIN h.events : h.events[i].kind = "done"}
             gd == {i \in DOMAIN g.events : g.events[i].kind = "done"}
             u == IF kind = "done" THEN m ELSE t
  <1>4. /\ g.events[M].from = n + 1 /\ g.events[M].to = m /\ g.events[M].kind = kind
    BY <1>3
  <1>5. /\ hd # {} => \E i \in hd : h.events[i].to = t /\ \A j \in hd : j <= i
        /\ hd = {} => t <= IF h.events = <<>> THEN b ELSE h.events[1].from - 1
    BY DEF LastDone
  <1>6. /\ \A i \in 1..N : h.events[i].from <= h.events[i].to
                           /\ (i > 1 => h.events[i].from = h.events[i - 1].to + 1)
                           /\ h.events[i].to \in Nat /\ h.events[i].from \in Nat
    BY <1>2 DEF Window, Event
  <1>11. EndOf(h, b) = n
    BY DEF Window
  <1>12. N = 0 => b = n
    BY <1>2, <1>11 DEF EndOf
  <1>7. M \in Nat /\ M >= 1 /\ M \in 1..M /\ g.events # <<>>
    <2>1. N + 1 - k \in Nat /\ N + 1 - k >= 1
      BY <1>1, <1>2
    <2>2. M \in Nat /\ M >= 1
      BY <1>3, <2>1
    <2> QED BY <1>3, <2>2
  <1> HIDE DEF g, N, M
  <1>10. M - 1 = N - k
    <2>1. M = N + 1 - k
      BY <1>3
    <2> QED BY <1>2, <2>1
  <1>8. CASE kind = "done"
    <2>1. M \in gd /\ u = m /\ \A i \in gd : i <= M
      BY <1>3, <1>4, <1>7, <1>8
    <2> QED BY <1>4, <2>1 DEF LastDone, g
  <1>9. CASE kind # "done"
    <2>1. u = t /\ M \notin gd
      BY <1>4, <1>9
    <2>2. \A i \in 1..(M - 1) : i + k \in 1..N /\ i \in 1..M
      BY <1>1, <1>2, <1>3
    <2>3. \A i : i \in gd <=> i \in 1..(M - 1) /\ i + k \in hd
      <3>1. \A i \in 1..M : i # M => i \in 1..(M - 1)
        BY <1>7
      <3>2. ASSUME NEW i \in gd PROVE i \in 1..(M - 1) /\ i + k \in hd
        BY <1>2, <1>3, <2>1, <2>2, <3>1
      <3>3. ASSUME NEW i \in 1..(M - 1), i + k \in hd PROVE i \in gd
        BY <1>2, <1>3, <2>2, <3>3
      <3> QED BY <3>2, <3>3
    <2>4. CASE gd # {}
      <3>1. hd # {}
        BY <2>3, <2>4
      <3>2. PICK j \in hd : h.events[j].to = t /\ \A x \in hd : x <= j
        BY <1>5, <3>1
      <3>3. PICK i \in gd : TRUE
        BY <2>4
      <3>4. i + k <= j /\ i \in 1..(M - 1) /\ j \in 1..N
        BY <1>2, <2>3, <3>2
      <3>5. j - k \in 1..(M - 1) /\ j - k + k = j
        <4>1. i >= 1 /\ N + 1 - k - 1 = N - k /\ i \in Nat /\ j \in Nat
          BY <1>1, <1>2, <3>4
        <4> QED BY <1>1, <1>2, <1>10, <3>4, <4>1
      <3>6. j - k \in gd /\ g.events[j - k].to = t
        BY <1>3, <2>3, <3>2, <3>5
      <3>7. \A x \in gd : x <= j - k
        <4>1. \A x \in gd : x \in 1..(M - 1) /\ x + k <= j
          BY <2>3, <3>2
        <4> QED BY <1>1, <3>4, <4>1
      <3> QED BY <2>1, <2>4, <3>6, <3>7 DEF LastDone, g
    <2>5. CASE gd = {}
      <3>1. t <= g.events[1].from - 1
        <4>1. CASE N = 0
          <5>1. M = 1 /\ hd = {} /\ t <= b /\ b = n
            <6>1. hd = {} /\ t <= b /\ b = n
              BY <1>2, <1>5, <1>12, <4>1
            <6> QED BY <1>1, <1>2, <1>3, <4>1, <6>1
          <5> QED BY <1>4, <5>1
        <4>2. CASE N > 0
          <5>1. 1 \in 1..N /\ h.events # <<>>
            BY <1>2, <4>2
          <5>2. CASE k = 0
            <6>1. 1 \in 1..(M - 1) /\ 1 + k = 1
              BY <1>2, <1>3, <4>2, <5>2
            <6>2. g.events[1] = h.events[1]
              BY <1>3, <6>1
            <6>3. hd = {}
              <7>1. \A i \in hd : i \in 1..(M - 1) /\ i + k = i
                BY <1>2, <1>3, <5>2
              <7> QED BY <2>3, <2>5, <7>1
            <6> QED BY <1>5, <5>1, <6>2, <6>3
          <5>3. CASE k = 1
            <6>1. M = N /\ N >= 2 /\ 2 \in 1..N
              BY <1>1, <1>2, <1>3, <5>3
            <6>2. 1 \in 1..(M - 1) /\ 1 + k = 2 /\ 2 - 1 = 1 /\ 2 > 1
              BY <1>2, <5>3, <6>1
            <6>3. g.events[1] = h.events[2] /\ g.events[1].from = h.events[1].to + 1
              BY <1>3, <1>6, <6>1, <6>2
            <6>4. h.events[1].to \in Nat /\ h.events[1].from \in Nat
                  /\ h.events[1].from <= h.events[1].to
              BY <1>6, <5>1
            <6>5. CASE hd = {}
              BY <1>5, <5>1, <6>3, <6>4, <6>5
            <6>6. CASE hd # {}
              <7>1. PICK j \in hd : h.events[j].to = t
                BY <1>5, <6>6
              <7>2. j = 1
                <8>1. j \in 1..N /\ j - 1 + 1 = j
                  BY <1>2
                <8>2. j # 1 => j - 1 \in 1..(M - 1)
                  BY <1>2, <6>1, <8>1
                <8> QED BY <2>3, <2>5, <5>3, <8>1, <8>2
              <7> QED BY <6>3, <6>4, <7>1, <7>2
            <6> QED BY <6>5, <6>6
          <5> QED BY <5>2, <5>3
        <4> QED BY <1>2, <4>1, <4>2
      <3> QED BY <1>7, <2>1, <2>5, <3>1 DEF LastDone, g
    <2> QED BY <2>4, <2>5
  <1> QED BY <1>8, <1>9

LEMMA EndOfFacts ==
    ASSUME NEW h, NEW b \in Nat, NEW n \in Nat, Window(h, b, n)
    PROVE  EndOf(h, b) \in Nat /\ b <= EndOf(h, b) /\ EndOf(h, b) <= n
  <1> DEFINE N == Len(h.events)
  <1>1. /\ N \in Nat /\ DOMAIN h.events = 1..N /\ (h.events = <<>> <=> N = 0)
        /\ \A i \in 1..N : h.events[i] \in Event
    BY WindowFacts
  <1>2. EndOf(h, b) \in Nat /\ b <= EndOf(h, b)
    <2>1. CASE N = 0
      BY <1>1, <2>1 DEF EndOf
    <2>2. CASE N > 0
      <3>1. N \in 1..N /\ h.events # <<>>
        BY <1>1, <2>2
      <3>2. /\ b < h.events[N].from /\ h.events[N].from <= h.events[N].to
            /\ h.events[N].from \in Nat /\ h.events[N].to \in Nat
        BY <1>1, <3>1 DEF Window, Event
      <3>3. EndOf(h, b) = h.events[N].to
        BY <3>1 DEF EndOf
      <3> QED BY <3>2, <3>3
    <2> QED BY <1>1, <2>1, <2>2
  <1>3. EndOf(h, b) <= n
    <2>1. CASE h.pending = <<>>
      <3>1. EndOf(h, b) = n
        BY <2>1 DEF Window
      <3> QED BY <3>1
    <2>2. CASE h.pending # <<>>
      <3>1. h.pending[1].from = EndOf(h, b) + 1 /\ h.pending[1].from <= n
        BY <2>2 DEF Window
      <3> QED BY <1>2, <3>1
    <2> QED BY <2>1, <2>2
  <1> QED BY <1>2, <1>3

\* Who has had something has it still, whatever is pending.
LEMMA SameEventsGrow ==
    ASSUME NEW h, NEW g, NEW b, g.events = h.events, g.seq = h.seq, h.seq \in Nat
    PROVE  /\ Grows(h, g, b) /\ Grows(g, h, b)
           /\ \A t : LastDone(h, b, t) <=> LastDone(g, b, t)
           /\ EndOf(g, b) = EndOf(h, b) /\ Before(g) = Before(h)
  <1>1. EndOf(g, b) = EndOf(h, b) /\ Before(g) = Before(h)
    BY DEF EndOf, Before
  <1>2. \A s : Covered(g, b, s) = Covered(h, b, s)
    BY <1>1 DEF Covered
  <1>3. \A s, x : Placed(g, b, s, x) <=> Placed(h, b, s, x)
    BY <1>1, <1>2 DEF Placed
  <1>4. \A t : LastDone(h, b, t) <=> LastDone(g, b, t)
    BY DEF LastDone
  <1>5. h.seq <= g.seq /\ g.seq <= h.seq
    OBVIOUS
  <1> QED BY <1>1, <1>3, <1>4, <1>5 DEF Grows

LEMMA GrowsTransitive ==
    ASSUME NEW f, NEW g, NEW h, NEW b, f.seq \in Nat, g.seq \in Nat, h.seq \in Nat,
           Grows(f, g, b), Grows(g, h, b)
    PROVE  Grows(f, h, b)
  BY DEF Grows

\* A flush covers all that was emitted and takes nothing from anybody.
LEMMA FlushFacts ==
    ASSUME NEW h, NEW b \in Nat, NEW n \in Nat, Window(h, b, n)
    PROVE  LET g == Flush(h, n)
           IN  /\ Window(g, b, n) /\ g.pending = <<>>
               /\ g.seq = h.seq + Unflushed(h) /\ Unflushed(h) \in {0, 1}
               /\ Grows(h, g, b)
               /\ \A t \in Nat : LastDone(h, b, t) => LastDone(g, b, t)
  <1> DEFINE g == Flush(h, n)
  <1>1. h.seq \in Nat /\ h \in Hub
    BY WindowFacts DEF Window
  <1>2. CASE h.pending = <<>>
    <2>1. g = h /\ Unflushed(h) = 0
      BY <1>2 DEF Flush, Unflushed
    <2>2. Grows(h, h, b)
      BY <1>1 DEF Grows
    <2> QED BY <1>1, <1>2, <2>1, <2>2
  <1>3. CASE h.pending # <<>>
    <2> DEFINE f == [h EXCEPT !.pending = <<>>]
               e == EndOf(h, b)
    <2>1. /\ f.events = h.events /\ f.seq = h.seq /\ f.pending = <<>> /\ f \in Hub
      <3>1. <<>> \in Seq([part : Part, from : Nat])
        OBVIOUS
      <3>2. /\ h = [events |-> h.events, seq |-> h.seq, pending |-> h.pending]
            /\ h.events \in Seq(Event) /\ h.seq \in Nat
        BY <1>1 DEF Hub
      <3>3. f = [events |-> h.events, seq |-> h.seq, pending |-> <<>>]
        BY <3>2
      <3>4. f \in Hub
        BY <3>1, <3>2, <3>3 DEF Hub
      <3> QED BY <3>3, <3>4
    <2>2. e \in Nat /\ b <= e /\ e <= n
      BY EndOfFacts
    <2>3. h.pending[1].from = e + 1 /\ e + 1 <= n
      BY <1>3 DEF Window
    <2>4. g = Push(f, e + 1, n, "delta") /\ Unflushed(h) = 1
      BY <1>3, <2>3 DEF Flush, Unflushed
    <2>5. /\ Grows(h, f, b) /\ Before(f) = Before(h) /\ EndOf(f, b) = e
          /\ \A t : LastDone(h, b, t) <=> LastDone(f, b, t)
      BY <1>1, <2>1, SameEventsGrow
    <2> HIDE DEF f, e, g
    <2>6. Window(f, b, e)
      BY <2>1, <2>2, <2>5 DEF Window
    <2>7. "delta" \in Kind \ {"reset"}
      BY DEF Kind
    <2>8. Window(g, b, n) /\ Grows(f, g, b)
      BY <2>1, <2>2, <2>3, <2>4, <2>6, <2>7, PushWindow, PushGrows
    <2>9. \A t \in Nat : LastDone(f, b, t) => LastDone(g, b, t)
      <3>1. "delta" # "done"
        OBVIOUS
      <3>2. \A t \in Nat :
              LastDone(f, b, t)
              => LastDone(Push(f, e + 1, n, "delta"), b, IF "delta" = "done" THEN n ELSE t)
        BY <2>1, <2>2, <2>3, <2>6, <2>7, PushLastDone
      <3> QED BY <2>4, <3>1, <3>2
    <2>10. g.seq = h.seq + 1 /\ g.pending = <<>>
      BY <2>1, <2>4 DEF Push
    <2>11. Grows(h, g, b)
      <3>1. f.seq \in Nat /\ g.seq \in Nat
        BY <1>1, <2>1, <2>10
      <3> QED BY <1>1, <2>5, <2>8, <3>1, GrowsTransitive
    <2> QED BY <2>4, <2>5, <2>8, <2>9, <2>10, <2>11 DEF g
  <1> QED BY <1>2, <1>3

\* What eventsSince returns is the end of the window, from where the cursor is.
LEMMA SinceFacts ==
    ASSUME NEW h, NEW b \in Nat, NEW n \in Nat, Window(h, b, n),
           NEW s \in Nat, s <= h.seq,
           NEW k \in Nat, s >= Before(h) => k = s - Before(h), s < Before(h) => k = 0
    PROVE  /\ Since(h, s) \in Seq(Event) /\ Len(Since(h, s)) = Len(h.events) - k
           /\ DOMAIN Since(h, s) = 1..(Len(h.events) - k)
           /\ \A i \in 1..(Len(h.events) - k) :
                 Since(h, s)[i] = h.events[k + i] /\ k + i \in 1..Len(h.events)
           /\ Since(h, s) = <<>> <=> s = h.seq
  <1> DEFINE N == Len(h.events)
             later == {i \in DOMAIN h.events : h.events[i].seq > s}
             u == Since(h, s)
  <1>1. /\ N \in Nat /\ h.seq \in Nat /\ Before(h) \in Nat /\ Before(h) + N = h.seq
        /\ DOMAIN h.events = 1..N /\ h.events \in Seq(Event)
        /\ \A i \in 1..N : h.events[i] \in Event
        /\ Before(h) > 0 => N = Retain
    BY WindowFacts
  <1>2. \A i \in 1..N : h.events[i].seq = Before(h) + i
    BY <1>1 DEF Window
  <1>3. N >= 2 \/ Before(h) = 0
    BY <1>1, RetainsTwo
  <1> HIDE DEF N
  <1>4. k \in 0..N /\ (k = N <=> s = h.seq)
    BY <1>1, <1>3
  <1>5. later = (k + 1)..N
    <2>1. \A i \in 1..N : Before(h) + i > s <=> i >= k + 1
      BY <1>1
    <2>2. \A i : i \in later <=> i \in 1..N /\ i >= k + 1
      BY <1>1, <1>2, <2>1
    <2>3. \A i : i \in 1..N /\ i >= k + 1 <=> i \in (k + 1)..N
      BY <1>1
    <2> QED BY <2>2, <2>3
  <1>6. CASE k = N
    <2>1. later = {}
      BY <1>1, <1>5, <1>6
    <2>2. u = <<>>
      BY <2>1 DEF Since
    <2>3. Len(u) = N - k /\ DOMAIN u = 1..(N - k) /\ u \in Seq(Event)
      BY <1>1, <1>6, <2>2
    <2>4. \A i \in 1..(N - k) : FALSE
      BY <1>1, <1>6
    <2> QED BY <1>4, <1>6, <2>2, <2>3, <2>4 DEF N
  <1>7. CASE k # N
    <2>1. k + 1 \in later /\ \A i \in later : k + 1 <= i
      BY <1>1, <1>4, <1>5, <1>7
    <2>2. Min(later) = k + 1
      <3>1. \A x \in later : (\A y \in later : x <= y) => x = k + 1
        BY <1>1, <1>5, <2>1
      <3> QED BY <2>1, <3>1 DEF Min
    <2>3. u = SubSeq(h.events, k + 1, N)
      BY <2>1, <2>2 DEF Since, N
    <2>4. PICK j \in Nat : j = k + 1
      OBVIOUS
    <2>5. N \in Nat /\ k < N
      BY <1>1, <1>4, <1>7
    <2>6. /\ SubSeq(h.events, j, N) \in Seq(Event)
          /\ Len(SubSeq(h.events, j, N)) = IF j <= N THEN N - j + 1 ELSE 0
          /\ \A i \in 1..(N - j + 1) : SubSeq(h.events, j, N)[i] = h.events[j + i - 1]
      <3>1. \A i \in j..N : h.events[i] \in Event
        BY <1>1, <2>4, <2>5
      <3> QED BY <2>5, <3>1, SubSeqProperties
    <2>10. /\ N - j + 1 = N - k /\ j <= N /\ N - k # 0 /\ N - k \in Nat
           /\ \A i \in 1..(N - k) : j + i - 1 = k + i /\ k + i \in 1..N
      BY <2>4, <2>5
    <2>11. u = SubSeq(h.events, j, N)
      BY <2>3, <2>4
    <2>7. u \in Seq(Event) /\ Len(u) = N - k
      BY <2>6, <2>10, <2>11
    <2>8. DOMAIN u = 1..(N - k) /\ u # <<>>
      <3>1. DOMAIN u = 1..Len(u) /\ Len(u) # 0
        BY <2>7, <2>10
      <3>2. u # <<>>
        BY <3>1
      <3> QED BY <2>7, <3>1, <3>2
    <2>9. \A i \in 1..(N - k) : u[i] = h.events[k + i] /\ k + i \in 1..N
      BY <2>6, <2>10, <2>11
    <2> QED BY <1>4, <1>7, <2>7, <2>8, <2>9 DEF N
  <1> QED BY <1>6, <1>7

\* Who has had an event that is retained is where the event says.
LEMMA EventPlaced ==
    ASSUME NEW h, NEW b \in Nat, NEW n \in Nat, Window(h, b, n),
           NEW i \in 1..Len(h.events)
    PROVE  /\ Placed(h, b, h.events[i].seq, h.events[i].to) /\ b <= h.events[i].to
           /\ h.events[i] \in Event
  <1> DEFINE N == Len(h.events)
             s == Before(h) + i
  <1>1. /\ N \in Nat /\ h.seq \in Nat /\ Before(h) \in Nat /\ Before(h) + N = h.seq
        /\ DOMAIN h.events = 1..N /\ (h.events = <<>> <=> N = 0)
        /\ \A j \in 1..N : h.events[j] \in Event
    BY WindowFacts
  <1>2. \A j \in 1..N :
          /\ h.events[j].seq = Before(h) + j
          /\ b < h.events[j].from /\ h.events[j].from <= h.events[j].to
          /\ j > 1 => h.events[j].from = h.events[j - 1].to + 1
          /\ h.events[j].to \in Nat /\ h.events[j].from \in Nat
    BY <1>1 DEF Window, Event
  <1>3. i \in 1..N /\ b <= h.events[i].to /\ h.events[i].seq = s /\ h.events[i] \in Event
    <2>1. /\ i \in 1..N /\ b < h.events[i].from /\ h.events[i].from <= h.events[i].to
          /\ h.events[i].to \in Nat /\ h.events[i].from \in Nat
      BY <1>2
    <2>2. h.events[i].seq = s /\ h.events[i] \in Event
      BY <1>1, <1>2
    <2>3. b <= h.events[i].to
      BY <2>1
    <2> QED BY <2>1, <2>2, <2>3
  <1> HIDE DEF N
  <1>4. s >= Before(h) /\ s <= h.seq /\ ~(s < Before(h)) /\ s - Before(h) + 1 = i + 1
        /\ (s = h.seq <=> i = N)
    BY <1>1, <1>3
  <1>5. h.events[i].to = Covered(h, b, s)
    <2>1. CASE i = N
      <3>1. h.events # <<>> /\ s = h.seq
        BY <1>1, <1>3, <1>4, <2>1
      <3> QED BY <2>1, <3>1 DEF Covered, EndOf, N
    <2>2. CASE i # N
      <3>1. i + 1 \in 1..N /\ i + 1 > 1 /\ i + 1 - 1 = i
        BY <1>1, <1>3, <2>2
      <3>2. h.events[i + 1].from = h.events[i].to + 1 /\ h.events[i].to \in Nat
        BY <1>2, <1>3, <3>1
      <3>3. Covered(h, b, s) = h.events[i + 1].from - 1
        BY <1>4, <2>2 DEF Covered
      <3> QED BY <3>2, <3>3
    <2> QED BY <2>1, <2>2
  <1> QED BY <1>3, <1>4, <1>5 DEF Placed

\* What is returned for a cursor goes on from it without a gap, if it is not before
\* the window, up to the last event.
LEMMA SinceChain ==
    ASSUME NEW h, NEW b \in Nat, NEW n \in Nat, Window(h, b, n),
           NEW s \in Nat, s <= h.seq,
           NEW u, u = Since(h, s)
    PROVE  /\ u \in Seq(Event) /\ (u = <<>> <=> s = h.seq)
           /\ Chain(u, h, b, h.seq)
           /\ u # <<>> => /\ u[1].kind # "reset" /\ s < u[1].seq
                          /\ s >= Before(h) => u[1].from = Covered(h, b, s) + 1
                                               /\ u[1].seq = s + 1
                          /\ s < Before(h) => u[1] = h.events[1]
  <1> DEFINE N == Len(h.events)
  <1>1. /\ N \in Nat /\ h.seq \in Nat /\ Before(h) \in Nat /\ Before(h) + N = h.seq
        /\ DOMAIN h.events = 1..N /\ (h.events = <<>> <=> N = 0)
        /\ \A j \in 1..N : h.events[j] \in Event
    BY WindowFacts
  <1>2. \A j \in 1..N :
          /\ h.events[j].seq = Before(h) + j
          /\ h.events[j].from <= h.events[j].to
          /\ j > 1 => h.events[j].from = h.events[j - 1].to + 1
          /\ h.events[j].kind # "reset"
          /\ h.events[j].to \in Nat /\ h.events[j].from \in Nat
    BY <1>1 DEF Window, Event
  <1>3. PICK k \in Nat : /\ s >= Before(h) => k = s - Before(h)
                         /\ s < Before(h) => k = 0
    <2> DEFINE past == IF s >= Before(h) THEN s - Before(h) ELSE 0
    <2>1. past \in Nat
      BY <1>1
    <2>2. s < Before(h) => ~(s >= Before(h))
      BY <1>1
    <2> QED BY <2>1, <2>2
  <1>4. /\ u \in Seq(Event) /\ Len(u) = N - k /\ DOMAIN u = 1..(N - k)
        /\ \A i \in 1..(N - k) : u[i] = h.events[k + i] /\ k + i \in 1..N
        /\ (u = <<>> <=> s = h.seq)
    <2>1. /\ Since(h, s) \in Seq(Event) /\ Len(Since(h, s)) = N - k
          /\ DOMAIN Since(h, s) = 1..(N - k)
          /\ \A i \in 1..(N - k) : Since(h, s)[i] = h.events[k + i] /\ k + i \in 1..N
          /\ Since(h, s) = <<>> <=> s = h.seq
      BY <1>3, SinceFacts
    <2> QED BY <2>1
  <1>5. \A i \in 1..N : Placed(h, b, h.events[i].seq, h.events[i].to) /\ b <= h.events[i].to
    BY EventPlaced
  <1> HIDE DEF N
  <1>6. ASSUME NEW i \in 1..(N - k)
        PROVE  /\ b <= u[i].to /\ Placed(h, b, u[i].seq, u[i].to)
               /\ u[i].kind # "reset"
               /\ i > 1 => u[i].from = u[i - 1].to + 1
               /\ \A j \in 1..(N - k) : i < j => u[i].seq < u[j].seq
    <2>1. u[i] = h.events[k + i] /\ k + i \in 1..N
      BY <1>4
    <2>2. i > 1 => u[i].from = u[i - 1].to + 1
      <3>1. SUFFICES ASSUME i > 1 PROVE u[i].from = u[i - 1].to + 1
        OBVIOUS
      <3>2. i - 1 \in 1..(N - k) /\ k + (i - 1) = k + i - 1 /\ k + i > 1
        BY <1>1, <3>1
      <3>3. u[i - 1] = h.events[k + i - 1]
        BY <1>4, <3>2
      <3> QED BY <1>2, <2>1, <3>2, <3>3
    <2>3. \A j \in 1..(N - k) : i < j => u[i].seq < u[j].seq
      <3>1. \A j \in 1..(N - k) : u[j].seq = Before(h) + (k + j)
        BY <1>2, <1>4
      <3> QED BY <1>1, <3>1
    <2> QED BY <1>2, <1>5, <2>1, <2>2, <2>3
  <1>7. u # <<>> => u[Len(u)].seq = h.seq /\ Len(u) \in 1..(N - k) /\ 1 \in 1..(N - k)
    <2>1. SUFFICES ASSUME u # <<>>
                   PROVE  u[Len(u)].seq = h.seq /\ Len(u) \in 1..(N - k) /\ 1 \in 1..(N - k)
      OBVIOUS
    <2>2. Len(u) # 0 /\ Len(u) \in Nat
      BY <1>4, <2>1
    <2>3. N - k \in 1..(N - k) /\ 1 \in 1..(N - k) /\ k + (N - k) = N
      BY <1>1, <1>4, <2>2
    <2>4. u[N - k].seq = Before(h) + N
      BY <1>2, <1>4, <2>3
    <2> QED BY <1>1, <1>4, <2>3, <2>4
  <1>8. Chain(u, h, b, h.seq)
    BY <1>4, <1>6, <1>7 DEF Chain
  <1>9. ASSUME u # <<>>
        PROVE  /\ u[1].kind # "reset" /\ s < u[1].seq
               /\ s >= Before(h) => u[1].from = Covered(h, b, s) + 1 /\ u[1].seq = s + 1
               /\ s < Before(h) => u[1] = h.events[1]
    <2>1. 1 \in 1..(N - k) /\ u[1] = h.events[k + 1] /\ k + 1 \in 1..N
      BY <1>4, <1>7, <1>9
    <2>2. u[1].kind # "reset" /\ u[1].seq = Before(h) + (k + 1) /\ u[1].from \in Nat
      BY <1>2, <2>1
    <2>3. CASE s >= Before(h)
      <3>1. k = s - Before(h) /\ s # h.seq /\ ~(s < Before(h)) /\ k + 1 = s - Before(h) + 1
        <4>1. k = s - Before(h)
          BY <1>3, <2>3
        <4>2. s # h.seq
          BY <1>4, <1>9
        <4>3. ~(s < Before(h)) /\ k + 1 = s - Before(h) + 1
          BY <1>1, <2>3, <4>1
        <4> QED BY <4>1, <4>2, <4>3
      <3>2. Covered(h, b, s) = u[1].from - 1
        BY <2>1, <3>1 DEF Covered
      <3>3. Before(h) + (k + 1) = s + 1
        BY <1>1, <3>1
      <3> QED BY <2>2, <3>1, <3>2, <3>3
    <2>4. CASE s < Before(h)
      <3>1. k = 0 /\ ~(s >= Before(h)) /\ k + 1 = 1
        BY <1>1, <1>3, <2>4
      <3>2. s < Before(h) + (k + 1)
        BY <1>1, <2>4
      <3> QED BY <2>1, <2>2, <3>1, <3>2
    <2> QED BY <1>1, <2>3, <2>4
  <1> QED BY <1>4, <1>8, <1>9

\* A chain is a chain of whatever the hub grows to.
LEMMA ChainGrows ==
    ASSUME NEW w \in Seq(Event), NEW h, NEW g, NEW b, NEW s,
           Chain(w, h, b, s), Grows(h, g, b)
    PROVE  Chain(w, g, b, s)
  <1>1. \A i \in DOMAIN w : w[i].seq \in Nat /\ w[i].to \in Nat
    <2>1. \A i \in DOMAIN w : w[i] \in Event
      OBVIOUS
    <2> QED BY <2>1 DEF Event
  <1> QED BY <1>1 DEF Chain, Grows

\* The events of a chain are up to where it ends.
LEMMA ChainUpTo ==
    ASSUME NEW w \in Seq(Event), NEW h, NEW b, NEW s \in Nat, Chain(w, h, b, s)
    PROVE  \A i \in 1..Len(w) : w[i].seq <= s /\ w[i] \in Event
  <1>1. /\ DOMAIN w = 1..Len(w) /\ Len(w) \in Nat /\ \A i \in 1..Len(w) : w[i] \in Event
        /\ w # <<>> <=> Len(w) # 0
    OBVIOUS
  <1>2. SUFFICES ASSUME NEW i \in 1..Len(w) PROVE w[i].seq <= s
    BY <1>1
  <1>3. Len(w) \in 1..Len(w) /\ w # <<>>
    BY <1>1
  <1>4. w[Len(w)].seq = s
    BY <1>3 DEF Chain
  <1>5. i < Len(w) => w[i].seq < w[Len(w)].seq
    BY <1>1, <1>3 DEF Chain
  <1>6. w[i].seq \in Nat
    BY <1>1 DEF Event
  <1>7. i = Len(w) \/ i < Len(w)
    <2>1. Len(w) \in Nat
      OBVIOUS
    <2> QED BY <2>1
  <1> QED BY <1>4, <1>5, <1>6, <1>7

\* What has been written and what next() returns after it make one chain, as long as
\* the reader has not fallen out of the window.
LEMMA ChainExtends ==
    ASSUME NEW w \in Seq(Event), NEW u \in Seq(Event), NEW h, NEW b \in Nat,
           NEW s \in Nat, Chain(w, h, b, s), Chain(u, h, b, h.seq),
           w # <<>> => s >= Before(h), u = <<>> => s = h.seq,
           u # <<>> => /\ u[1].kind # "reset" /\ s < u[1].seq
                       /\ s >= Before(h) => u[1].from = Covered(h, b, s) + 1
    PROVE  Chain(w \o u, h, b, h.seq) /\ w \o u \in Seq(Event)
  <1> DEFINE W == Len(w)
             U == Len(u)
             v == w \o u
  <1>1. /\ u \in Seq(Event) /\ (u = <<>> => s = h.seq) /\ Chain(u, h, b, h.seq)
        /\ u # <<>> => /\ u[1].kind # "reset" /\ s < u[1].seq
                       /\ s >= Before(h) => u[1].from = Covered(h, b, s) + 1
    OBVIOUS
  <1>2. /\ W \in Nat /\ U \in Nat /\ DOMAIN w = 1..W /\ DOMAIN u = 1..U
        /\ (w = <<>> <=> W = 0) /\ (u = <<>> <=> U = 0)
        /\ \A i \in 1..W : w[i] \in Event
        /\ \A i \in 1..U : u[i] \in Event
    BY <1>1
  <1>3. /\ v \in Seq(Event) /\ Len(v) = W + U
        /\ \A i \in 1..(W + U) : v[i] = IF i <= W THEN w[i] ELSE u[i - W]
    BY <1>1, ConcatProperties
  <1>4. \A i \in 1..W : w[i].seq <= s
    BY ChainUpTo
  <1>5. \A i \in 1..W :
          /\ b <= w[i].to /\ Placed(h, b, w[i].seq, w[i].to)
          /\ i > 1 => w[i].from = w[i - 1].to + 1 /\ w[i].kind # "reset"
          /\ \A j \in 1..W : i < j => w[i].seq < w[j].seq
    BY <1>2 DEF Chain
  <1>6. /\ \A i \in 1..U :
             /\ b <= u[i].to /\ Placed(h, b, u[i].seq, u[i].to)
             /\ i > 1 => u[i].from = u[i - 1].to + 1 /\ u[i].kind # "reset"
             /\ \A j \in 1..U : i < j => u[i].seq < u[j].seq
    BY <1>1, <1>2 DEF Chain
  <1>13. U > 0 => u[U].seq = h.seq
    BY <1>1, <1>2 DEF Chain
  <1>7. W > 0 => w[W].seq = s
    BY <1>2 DEF Chain
  <1>8. DOMAIN v = 1..(W + U)
    BY <1>3
  <1> HIDE DEF W, U, v
  <1>9. W > 0 /\ U > 0 => u[1].from = w[W].to + 1
    <2>1. SUFFICES ASSUME W > 0, U > 0 PROVE u[1].from = w[W].to + 1
      OBVIOUS
    <2>2. W \in 1..W /\ w # <<>> /\ u # <<>>
      BY <1>2, <2>1
    <2>3. Placed(h, b, s, w[W].to) /\ s >= Before(h)
      BY <1>5, <1>7, <2>1, <2>2
    <2>4. w[W].to = Covered(h, b, s)
      BY <2>3 DEF Placed
    <2> QED BY <1>1, <2>2, <2>3, <2>4
  <1>10. \A i \in 1..U : s < u[i].seq
    <2>1. ASSUME NEW i \in 1..U PROVE s < u[i].seq
      <3>1. 1 \in 1..U /\ u # <<>> /\ (i = 1 \/ 1 < i)
        BY <1>2
      <3>2. s < u[1].seq /\ u[1].seq \in Nat /\ u[i].seq \in Nat
        BY <1>1, <1>2, <3>1 DEF Event
      <3>3. 1 < i => u[1].seq < u[i].seq
        BY <1>6, <3>1
      <3> QED BY <3>1, <3>2, <3>3
    <2> QED BY <2>1
  <1>11. ASSUME NEW i \in 1..(W + U)
         PROVE  /\ b <= v[i].to /\ Placed(h, b, v[i].seq, v[i].to)
                /\ i > 1 => v[i].from = v[i - 1].to + 1 /\ v[i].kind # "reset"
                /\ \A j \in 1..(W + U) : i < j => v[i].seq < v[j].seq
    <2>1. CASE i <= W
      <3>1. v[i] = w[i] /\ i \in 1..W
        BY <1>2, <1>3, <2>1
      <3>2. i > 1 => v[i - 1] = w[i - 1]
        <4>1. i > 1 => i - 1 \in 1..(W + U) /\ i - 1 <= W
          BY <1>2, <2>1
        <4> QED BY <1>3, <4>1
      <3>3. ASSUME NEW j \in 1..(W + U), i < j PROVE v[i].seq < v[j].seq
        <4>1. CASE j <= W
          <5>1. v[j] = w[j] /\ j \in 1..W
            BY <1>2, <1>3, <4>1
          <5> QED BY <1>5, <3>1, <3>3, <5>1
        <4>2. CASE ~(j <= W)
          <5>1. v[j] = u[j - W] /\ j - W \in 1..U
            BY <1>2, <1>3, <4>2
          <5>2. w[i].seq <= s /\ s < u[j - W].seq /\ w[i].seq \in Nat /\ u[j - W].seq \in Nat
            BY <1>2, <1>4, <1>10, <3>1, <5>1 DEF Event
          <5> QED BY <3>1, <5>1, <5>2
        <4> QED BY <4>1, <4>2
      <3> QED BY <1>5, <3>1, <3>2, <3>3
    <2>2. CASE ~(i <= W)
      <3>1. v[i] = u[i - W] /\ i - W \in 1..U
        BY <1>2, <1>3, <2>2
      <3>2. i > 1 => v[i].from = v[i - 1].to + 1 /\ v[i].kind # "reset"
        <4>1. CASE i - W = 1
          <5>1. i > 1 => W > 0 /\ U > 0 /\ i - 1 = W /\ i - 1 <= W /\ i - 1 \in 1..(W + U)
            BY <1>2, <3>1, <4>1
          <5>2. i > 1 => v[i - 1] = w[W]
            BY <1>3, <5>1
          <5>3. u # <<>>
            BY <1>2, <3>1
          <5> QED BY <1>1, <1>9, <3>1, <4>1, <5>1, <5>2, <5>3
        <4>2. CASE i - W # 1
          <5>1. /\ i - W > 1 /\ i - 1 \in 1..(W + U) /\ ~(i - 1 <= W)
                /\ i - 1 - W = i - W - 1
            BY <1>2, <3>1, <4>2
          <5>2. v[i - 1] = u[i - W - 1]
            BY <1>3, <5>1
          <5> QED BY <1>6, <3>1, <5>1, <5>2
        <4> QED BY <4>1, <4>2
      <3>3. ASSUME NEW j \in 1..(W + U), i < j PROVE v[i].seq < v[j].seq
        <4>1. ~(j <= W) /\ j - W \in 1..U /\ i - W < j - W
          BY <1>2, <2>2, <3>3
        <4>2. v[j] = u[j - W]
          BY <1>3, <4>1
        <4> QED BY <1>6, <3>1, <4>1, <4>2
      <3> QED BY <1>6, <3>1, <3>2, <3>3
    <2> QED BY <2>1, <2>2
  <1>12. v # <<>> => v[Len(v)].seq = h.seq
    <2>1. SUFFICES ASSUME v # <<>> PROVE v[W + U].seq = h.seq
      BY <1>3
    <2>2. W + U > 0 /\ W + U \in 1..(W + U)
      BY <1>2, <1>3, <2>1
    <2>3. CASE U > 0
      <3>1. ~(W + U <= W) /\ W + U - W = U
        BY <1>2, <2>3
      <3>2. v[W + U] = u[W + U - W]
        BY <1>2, <1>3, <2>2, <3>1
      <3> QED BY <1>13, <2>3, <3>1, <3>2
    <2>4. CASE U = 0
      <3>1. W + U <= W /\ W + U = W /\ W > 0 /\ s = h.seq
        BY <1>1, <1>2, <2>2, <2>4
      <3> QED BY <1>3, <1>7, <2>2, <3>1
    <2> QED BY <1>2, <2>3, <2>4
  <1> QED BY <1>3, <1>8, <1>11, <1>12 DEF Chain, v

-----------------------------------------------------------------------------
(* One client, as the hub goes on.                                          *)

Connection == [pc : {"closed", "loop", "waiting", "woken"}, cursor : Nat]

LEMMA InvFacts ==
    ASSUME StreamInv, NEW c \in Client
    PROVE  /\ conn[c] \in Connection /\ conn[c].cursor \in Nat
           /\ conn[c].pc \in {"closed", "loop", "waiting", "woken"}
           /\ written[c] \in Seq(Event) /\ lastId[c] \in Nat /\ known[c] \in Nat
           /\ cut[c] \in BOOLEAN
           /\ sent \in Nat /\ base \in Nat /\ lastDone \in Nat
           /\ burst \in Nat /\ burst <= MaxBurst /\ lastDone <= sent
           /\ Window(hub, base, sent) /\ LastDone(hub, base, lastDone) /\ Safe(c)
           /\ hub.seq \in Nat /\ Unflushed(hub) \in {0, 1}
  <1>1. Window(hub, base, sent) /\ LastDone(hub, base, lastDone) /\ Safe(c)
    BY DEF StreamInv
  <1>2. /\ sent \in Nat /\ base \in Nat /\ lastDone \in Nat /\ burst \in Nat
        /\ burst <= MaxBurst /\ lastDone <= sent
        /\ written[c] \in Seq(Event) /\ lastId[c] \in Nat /\ known[c] \in Nat
        /\ cut[c] \in BOOLEAN
    BY DEF StreamInv, HubTypeOK
  <1>3. conn[c] \in Connection
    BY DEF StreamInv, HubTypeOK, Connection
  <1>4. conn[c].cursor \in Nat /\ conn[c].pc \in {"closed", "loop", "waiting", "woken"}
    BY <1>3 DEF Connection
  <1>5. hub.seq \in Nat
    BY <1>1, <1>2, WindowFacts
  <1>6. Unflushed(hub) \in {0, 1}
    BY DEF Unflushed
  <1> QED BY <1>1, <1>2, <1>3, <1>4, <1>5, <1>6

\* Waking changes who waits, and nothing else.
LEMMA WakeFacts ==
    ASSUME HubTypeOK, NEW g
    PROVE  /\ Awake(conn) \in [Client -> Connection]
           /\ Wake(g, conn) \in [Client -> Connection]
           /\ \A d \in Client :
                 /\ Awake(conn)[d].cursor = conn[d].cursor
                 /\ Wake(g, conn)[d].cursor = conn[d].cursor
                 /\ Awake(conn)[d].pc = IF conn[d].pc = "waiting" THEN "woken"
                                        ELSE conn[d].pc
                 /\ Wake(g, conn)[d].pc = IF g.seq # hub.seq /\ conn[d].pc = "waiting"
                                          THEN "woken" ELSE conn[d].pc
  <1>1. \A d \in Client : conn[d] \in Connection
    BY DEF HubTypeOK, Connection
  <1>2. conn \in [Client -> Connection]
    BY DEF HubTypeOK, Connection
  <1>3. ASSUME NEW d \in Client
        PROVE  /\ Awake(conn)[d] \in Connection
               /\ Awake(conn)[d].cursor = conn[d].cursor
               /\ Awake(conn)[d].pc = IF conn[d].pc = "waiting" THEN "woken"
                                      ELSE conn[d].pc
    <2>1. Awake(conn)[d] = IF conn[d].pc = "waiting" THEN [conn[d] EXCEPT !.pc = "woken"]
                           ELSE conn[d]
      BY DEF Awake
    <2>2. conn[d] = [pc |-> conn[d].pc, cursor |-> conn[d].cursor] /\ conn[d].cursor \in Nat
      BY <1>1 DEF Connection
    <2>3. CASE conn[d].pc = "waiting"
      <3>1. Awake(conn)[d] = [pc |-> "woken", cursor |-> conn[d].cursor]
        BY <2>1, <2>2, <2>3
      <3> QED BY <2>2, <2>3, <3>1 DEF Connection
    <2>4. CASE conn[d].pc # "waiting"
      BY <1>1, <2>1, <2>4
    <2> QED BY <2>3, <2>4
  <1>4. Awake(conn) = [d \in Client |-> Awake(conn)[d]]
    BY DEF Awake
  <1>5. Awake(conn) \in [Client -> Connection]
    BY <1>3, <1>4
  <1>6. CASE g.seq # hub.seq
    <2>1. Wake(g, conn) = Awake(conn)
      BY <1>6 DEF Wake
    <2> QED BY <1>3, <1>5, <1>6, <2>1
  <1>7. CASE g.seq = hub.seq
    <2>1. Wake(g, conn) = conn
      BY <1>7 DEF Wake
    <2> QED BY <1>2, <1>3, <1>5, <1>7, <2>1
  <1> QED BY <1>6, <1>7

\* Who has a connection has not fallen out of the window, not even by the next flush.
LEMMA InWindow ==
    ASSUME StreamInv, NEW c \in Client, conn[c].pc # "closed",
           NEW g, NEW n \in Nat, Window(g, base, n), g.seq <= hub.seq + Unflushed(hub)
    PROVE  conn[c].cursor >= Before(g)
  <1>1. /\ hub.seq \in Nat /\ Unflushed(hub) \in {0, 1} /\ burst \in Nat /\ burst <= MaxBurst
        /\ conn[c].cursor \in Nat /\ base \in Nat
        /\ conn[c].pc \in {"loop", "waiting", "woken"}
        /\ ReaderInv(c)
    BY InvFacts DEF Safe
  <1>2. /\ g.seq \in Nat /\ Before(g) \in Nat /\ Len(g.events) \in Nat
        /\ Before(g) + Len(g.events) = g.seq /\ (Before(g) > 0 => Len(g.events) = Retain)
    BY <1>1, WindowFacts
  <1>3. Retain \in Nat /\ Retain >= 2 /\ MaxBurst \in Nat /\ MaxBurst + 1 <= Retain
    BY HubAssumption
  <1>4. hub.seq + Unflushed(hub) - conn[c].cursor <= Retain
    <2>1. CASE conn[c].pc = "waiting"
      <3>1. conn[c].cursor = hub.seq
        BY <1>1, <2>1 DEF ReaderInv
      <3> QED BY <1>1, <1>3, <3>1
    <2>2. CASE conn[c].pc # "waiting"
      <3>1. hub.seq + Unflushed(hub) - conn[c].cursor <= burst + 1
        BY <1>1, <2>2 DEF ReaderInv, Lag
      <3> QED BY <1>1, <1>3, <3>1
    <2> QED BY <2>1, <2>2
  <1>5. CASE Before(g) = 0
    BY <1>1, <1>5
  <1>6. CASE Before(g) > 0
    <2>1. Before(g) + Retain <= hub.seq + Unflushed(hub)
      BY <1>2, <1>6
    <2>2. hub.seq + Unflushed(hub) <= conn[c].cursor + Retain
      BY <1>1, <1>3, <1>4
    <2>3. \A x, y, z, r \in Nat : x + r <= y /\ y <= z + r => z >= x
      OBVIOUS
    <2>4. hub.seq + Unflushed(hub) \in Nat
      BY <1>1
    <2> QED BY <1>1, <1>2, <1>3, <2>1, <2>2, <2>3, <2>4
  <1> QED BY <1>2, <1>5, <1>6

\* A client to which nothing happens, except that it may be woken, is as before
\* when the hub goes on.
LEMMA Kept ==
    ASSUME StreamInv, NEW d \in Client,
           base' = base, Grows(hub, hub', base),
           hub'.seq \in Nat, Unflushed(hub') \in {0, 1}, burst' \in Nat,
           written'[d] = written[d], lastId'[d] = lastId[d], known'[d] = known[d],
           cut'[d] = cut[d], d \notin old' => d \notin old,
           conn'[d].cursor = conn[d].cursor,
           \/ conn'[d].pc = conn[d].pc
           \/ conn[d].pc = "waiting" /\ conn'[d].pc = "woken",
           conn'[d].pc = "waiting" => hub'.seq = hub.seq,
           conn'[d].pc \in {"loop", "woken"}
             => hub'.seq + Unflushed(hub') - conn[d].cursor <= burst' + 1
    PROVE  Safe(d)'
  <1>1. /\ conn[d].cursor \in Nat /\ hub.seq \in Nat /\ written[d] \in Seq(Event)
        /\ lastId[d] \in Nat /\ known[d] \in Nat /\ base \in Nat
        /\ ReaderInv(d) /\ Chain(written[d], hub, base, conn[d].cursor)
        /\ d \notin old => ClientInv(d)
    BY InvFacts DEF Safe
  <1>2. hub.seq <= hub'.seq /\ \A s, n \in Nat : Placed(hub, base, s, n) => Placed(hub', base, s, n)
    BY DEF Grows
  <1>3. conn'[d].pc = "closed" <=> conn[d].pc = "closed"
    OBVIOUS
  <1>4. ReaderInv(d)'
    <2>1. conn[d].pc # "closed" => conn[d].cursor <= hub'.seq
      BY <1>1, <1>2 DEF ReaderInv
    <2>2. conn'[d].pc = "waiting" => conn[d].cursor = hub'.seq
      BY <1>1 DEF ReaderInv
    <2>3. conn[d].pc = "closed" => written[d] = <<>>
      BY <1>1 DEF ReaderInv
    <2>4. cut[d] => written[d] # <<>>
      BY <1>1 DEF ReaderInv
    <2>5. conn'[d].pc \in {"loop", "woken"} => Lag(d)' <= burst' + 1
      BY DEF Lag
    <2> QED BY <1>3, <2>1, <2>2, <2>3, <2>4, <2>5 DEF ReaderInv
  <1>5. Chain(written[d], hub, base, conn[d].cursor)'
    <2>1. Chain(written[d], hub', base, conn[d].cursor)
      BY <1>1, ChainGrows
    <2> QED BY <2>1
  <1>6. ASSUME d \notin old' PROVE ClientInv(d)'
    <2>1. ClientInv(d)
      BY <1>1, <1>6
    <2>2. Larger(known[d], base) \in Nat
      BY <1>1 DEF Larger
    <2>3. lastId[d] > 0 => known[d] >= base /\ Placed(hub', base, lastId[d], known[d])
      BY <1>1, <1>2, <2>1 DEF ClientInv
    <2>4. conn[d].pc # "closed" /\ written[d] = <<>>
          => Placed(hub', base, conn[d].cursor, Larger(known[d], base))
      BY <1>1, <1>2, <2>1, <2>2 DEF ClientInv
    <2>5. conn[d].pc # "closed" =>
            /\ lastId[d] <= conn[d].cursor
            /\ written[d] # <<>> => lastId[d] <= written[d][1].seq
            /\ written[d] # <<>> /\ ~cut[d] /\ written[d][1].kind # "reset"
                 => written[d][1].from = Larger(known[d], base) + 1
      BY <2>1 DEF ClientInv
    <2>6. Larger(known[d], base)' = Larger(known[d], base)
      BY DEF Larger
    <2> QED BY <1>3, <2>3, <2>4, <2>5, <2>6 DEF ClientInv
  <1> QED BY <1>4, <1>5, <1>6 DEF Safe

-----------------------------------------------------------------------------
(* The steps of the hub.                                                    *)

LEMMA EmissionKeeps ==
    ASSUME StreamInv, Emission, Window(hub', base, sent + 1), Grows(hub, hub', base),
           hub'.seq + Unflushed(hub') <= hub.seq + Unflushed(hub) + 1,
           lastDone' \in Nat, lastDone' <= sent + 1, LastDone(hub', base, lastDone')
    PROVE  StreamInv'
  <1>1. /\ sent' = sent + 1 /\ base' = base /\ conn' = Wake(hub', conn)
        /\ UNCHANGED <<written, lastId, known, base, cut, old>>
        /\ burst' = (IF Runnable THEN burst ELSE 0) + 1
        /\ ~Runnable \/ burst < MaxBurst
    BY DEF Emission
  <1>2. /\ HubTypeOK /\ sent \in Nat /\ base \in Nat /\ burst \in Nat
        /\ Window(hub, base, sent)
    BY DEF StreamInv, HubTypeOK
  <1>3. hub.seq \in Nat /\ hub'.seq \in Nat /\ Unflushed(hub) \in {0, 1} /\ Unflushed(hub') \in {0, 1}
    <2>1. sent + 1 \in Nat
      BY <1>2
    <2>2. hub.seq \in Nat /\ hub'.seq \in Nat
      BY <1>2, <2>1, WindowFacts
    <2> QED BY <2>2 DEF Unflushed
  <1>4. burst' \in Nat /\ burst' <= MaxBurst /\ burst' >= 1
    <2>1. MaxBurst \in Nat /\ MaxBurst >= 1
      BY HubAssumption
    <2>2. CASE Runnable
      BY <1>1, <1>2, <2>1, <2>2
    <2>3. CASE ~Runnable
      BY <1>1, <2>1, <2>3
    <2> QED BY <2>2, <2>3
  <1>5. /\ conn' \in [Client -> Connection]
        /\ \A d \in Client :
              /\ conn'[d].cursor = conn[d].cursor
              /\ conn'[d].pc = IF hub'.seq # hub.seq /\ conn[d].pc = "waiting"
                               THEN "woken" ELSE conn[d].pc
    BY <1>1, <1>2, WakeFacts
  <1>6. ASSUME NEW d \in Client PROVE Safe(d)'
    <2>1. ReaderInv(d) /\ conn[d].cursor \in Nat
      BY InvFacts DEF Safe
    <2>2. conn'[d].pc \in {"loop", "woken"}
            => hub'.seq + Unflushed(hub') - conn[d].cursor <= burst' + 1
      <3>1. CASE conn[d].pc = "waiting"
        <4>1. conn[d].cursor = hub.seq
          BY <2>1, <3>1 DEF ReaderInv
        <4> QED BY <1>3, <1>4, <4>1
      <3>2. CASE conn[d].pc \in {"loop", "woken"}
        <4>1. Runnable /\ burst' = burst + 1
          BY <1>1, <3>2 DEF Runnable
        <4>2. hub.seq + Unflushed(hub) - conn[d].cursor <= burst + 1
          BY <2>1, <3>2 DEF ReaderInv, Lag
        <4> QED BY <1>2, <1>3, <2>1, <4>1, <4>2
      <3> QED BY <1>5, <3>1, <3>2
    <2>3. /\ written'[d] = written[d] /\ lastId'[d] = lastId[d] /\ known'[d] = known[d]
          /\ cut'[d] = cut[d] /\ (d \notin old' => d \notin old)
      BY <1>1
    <2>4. /\ \/ conn'[d].pc = conn[d].pc
             \/ conn[d].pc = "waiting" /\ conn'[d].pc = "woken"
          /\ conn'[d].pc = "waiting" => hub'.seq = hub.seq
          /\ conn'[d].cursor = conn[d].cursor
      BY <1>5
    <2> QED BY <1>1, <1>3, <1>4, <2>2, <2>3, <2>4, Kept
  <1>7. HubTypeOK'
    BY <1>1, <1>2, <1>4, <1>5 DEF HubTypeOK, Connection
  <1>8. Window(hub, base, sent)' /\ LastDone(hub, base, lastDone)'
    BY <1>1
  <1> QED BY <1>6, <1>7, <1>8 DEF StreamInv

LEMMA EmitDeltaKeeps ==
    ASSUME StreamInv, NEW p \in Part, NEW long \in BOOLEAN, EmitDelta(p, long)
    PROVE  StreamInv'
  <1> DEFINE f == Flush(hub, sent)
             x == <<[part |-> p, from |-> sent + 1]>>
             h == IF SamePart(p) THEN hub ELSE [f EXCEPT !.pending = x]
             n == sent + 1
  <1>1. /\ hub' = (IF long THEN Flush(h, n) ELSE h)
        /\ Emission /\ lastDone' = lastDone
    BY DEF EmitDelta
  <1>2. /\ sent \in Nat /\ base \in Nat /\ n \in Nat /\ Window(hub, base, sent)
        /\ LastDone(hub, base, lastDone) /\ lastDone \in Nat /\ lastDone <= sent
        /\ hub.seq \in Nat /\ Unflushed(hub) \in {0, 1}
    <2>1. /\ sent \in Nat /\ base \in Nat /\ Window(hub, base, sent)
          /\ LastDone(hub, base, lastDone) /\ lastDone \in Nat /\ lastDone <= sent
      BY DEF StreamInv, HubTypeOK
    <2>2. hub.seq \in Nat
      BY <2>1, WindowFacts
    <2> QED BY <2>1, <2>2 DEF Unflushed
  <1>3. /\ Window(h, base, n) /\ Grows(hub, h, base) /\ LastDone(h, base, lastDone)
        /\ h.seq + Unflushed(h) <= hub.seq + Unflushed(hub) + 1 /\ h.seq \in Nat
        /\ Unflushed(h) \in {0, 1}
    <2>1. CASE SamePart(p)
      <3>1. h = hub /\ hub.pending # <<>>
        BY <2>1 DEF SamePart
      <3>2. /\ hub \in Hub
            /\ EndOf(hub, base) + 1 <= sent /\ EndOf(hub, base) \in Nat
            /\ Len(hub.pending) = 1 /\ hub.pending[1].from = EndOf(hub, base) + 1
        BY <1>2, <3>1, EndOfFacts DEF Window
      <3>3. EndOf(hub, base) + 1 <= n /\ base <= n
        BY <1>2, <3>2 DEF Window
      <3>4. Window(hub, base, n)
        BY <1>2, <3>1, <3>2, <3>3 DEF Window
      <3>5. Grows(hub, hub, base)
        BY <1>2 DEF Grows
      <3>6. hub.seq + Unflushed(hub) <= hub.seq + Unflushed(hub) + 1
        BY <1>2
      <3> HIDE DEF h
      <3> QED BY <1>2, <3>1, <3>4, <3>5, <3>6
    <2>2. CASE ~SamePart(p)
      <3>1. /\ Window(f, base, sent) /\ f.pending = <<>>
            /\ f.seq = hub.seq + Unflushed(hub) /\ Grows(hub, f, base)
            /\ LastDone(f, base, lastDone)
        BY <1>2, FlushFacts
      <3>2. h = [f EXCEPT !.pending = x] /\ f \in Hub /\ f.seq \in Nat
        BY <1>2, <2>2, <3>1 DEF Window
      <3> HIDE DEF f, h
      <3>3. /\ f = [events |-> f.events, seq |-> f.seq, pending |-> f.pending]
            /\ f.events \in Seq(Event)
        BY <3>2 DEF Hub
      <3>4. h = [events |-> f.events, seq |-> f.seq, pending |-> x]
        BY <3>2, <3>3
      <3>5. h.events = f.events /\ h.seq = f.seq /\ h.pending = x
        BY <3>4
      <3>6. /\ x \in Seq([part : Part, from : Nat]) /\ x # <<>> /\ Len(x) = 1
            /\ x[1].from = n
        BY <1>2
      <3>7. h \in Hub
        BY <3>2, <3>3, <3>4, <3>6 DEF Hub
      <3>8. /\ Grows(f, h, base) /\ (\A t : LastDone(f, base, t) <=> LastDone(h, base, t))
            /\ EndOf(h, base) = EndOf(f, base) /\ Before(h) = Before(f)
        BY <3>2, <3>5, SameEventsGrow
      <3>9. EndOf(f, base) = sent
        BY <3>1 DEF Window
      <3>10. x[1].from = EndOf(h, base) + 1 /\ n <= n /\ base <= n
        BY <1>2, <3>6, <3>8, <3>9 DEF Window
      <3>11. Window(h, base, n)
        BY <3>1, <3>5, <3>6, <3>7, <3>8, <3>10 DEF Window
      <3>12. Grows(hub, h, base)
        BY <1>2, <3>1, <3>2, <3>5, <3>8, GrowsTransitive
      <3>13. Unflushed(h) = 1
        BY <3>5, <3>6 DEF Unflushed
      <3>14. h.seq + Unflushed(h) <= hub.seq + Unflushed(hub) + 1
        BY <1>2, <3>1, <3>5, <3>13
      <3> QED BY <3>1, <3>2, <3>5, <3>8, <3>11, <3>12, <3>13, <3>14
    <2> QED BY <2>1, <2>2
  <1> HIDE DEF h, n
  <1>4. CASE ~long
    <2>1. hub' = h
      BY <1>1, <1>4
    <2>2. Window(hub', base, sent + 1) /\ lastDone <= sent + 1
      BY <1>2, <1>3, <2>1 DEF n
    <2> QED BY <1>1, <1>2, <1>3, <2>1, <2>2, EmissionKeeps
  <1>5. CASE long
    <2>1. hub' = Flush(h, n)
      BY <1>1, <1>5
    <2>2. /\ Window(hub', base, n) /\ hub'.pending = <<>>
          /\ hub'.seq = h.seq + Unflushed(h) /\ Grows(h, hub', base)
          /\ LastDone(hub', base, lastDone)
      BY <1>2, <1>3, <2>1, FlushFacts
    <2>3. Unflushed(hub') = 0
      BY <2>2 DEF Unflushed
    <2>4. hub'.seq \in Nat
      BY <1>3, <2>2
    <2>5. Grows(hub, hub', base)
      BY <1>2, <1>3, <2>2, <2>4, GrowsTransitive
    <2>6. Window(hub', base, sent + 1) /\ lastDone <= sent + 1
      BY <1>2, <2>2 DEF n
    <2>7. hub'.seq + Unflushed(hub') <= hub.seq + Unflushed(hub) + 1
      BY <1>2, <1>3, <2>2, <2>3
    <2> QED BY <1>1, <1>2, <2>2, <2>5, <2>6, <2>7, EmissionKeeps
  <1> QED BY <1>4, <1>5

LEMMA EmitKeeps ==
    ASSUME StreamInv, NEW kind \in {"part", "done"}, Emit(kind)
    PROVE  StreamInv'
  <1> DEFINE f == Flush(hub, sent)
  <1>1. /\ hub' = Push(f, sent + 1, sent + 1, kind)
        /\ Emission /\ lastDone' = IF kind = "done" THEN sent + 1 ELSE lastDone
    BY DEF Emit
  <1>2. /\ sent \in Nat /\ base \in Nat /\ Window(hub, base, sent)
        /\ LastDone(hub, base, lastDone) /\ lastDone \in Nat /\ lastDone <= sent
    BY DEF StreamInv, HubTypeOK
  <1>3. hub.seq \in Nat /\ Unflushed(hub) \in {0, 1}
    BY <1>2, WindowFacts DEF Unflushed
  <1>4. /\ Window(f, base, sent) /\ f.pending = <<>>
        /\ f.seq = hub.seq + Unflushed(hub) /\ Grows(hub, f, base)
        /\ LastDone(f, base, lastDone)
    BY <1>2, FlushFacts
  <1> HIDE DEF f
  <1>5. kind \in Kind \ {"reset"}
    BY DEF Kind
  <1>6. sent + 1 \in Nat /\ sent + 1 <= sent + 1
    BY <1>2
  <1>7. Window(hub', base, sent + 1)
    BY <1>1, <1>2, <1>4, <1>5, <1>6, PushWindow
  <1>8. Grows(f, hub', base)
    BY <1>1, <1>2, <1>4, <1>5, <1>6, PushGrows
  <1>9. LastDone(hub', base, lastDone')
    BY <1>1, <1>2, <1>4, <1>5, <1>6, PushLastDone
  <1>10. hub'.seq = f.seq + 1 /\ hub'.pending = <<>>
    BY <1>1, <1>4 DEF Push
  <1>11. Unflushed(hub') = 0 /\ hub'.seq \in Nat /\ f.seq \in Nat
    BY <1>3, <1>4, <1>10 DEF Unflushed
  <1>12. Grows(hub, hub', base)
    BY <1>3, <1>4, <1>8, <1>11, GrowsTransitive
  <1>13. hub'.seq + Unflushed(hub') <= hub.seq + Unflushed(hub) + 1
    BY <1>3, <1>4, <1>10, <1>11
  <1>14. lastDone' \in Nat /\ lastDone' <= sent + 1
    BY <1>1, <1>2
  <1> QED BY <1>1, <1>7, <1>9, <1>12, <1>13, <1>14, EmissionKeeps

\* The hub flushes: who waited is woken, and nobody falls further behind.
LEMMA FlushKeepsOthers ==
    ASSUME StreamInv, hub' = Flush(hub, sent), base' = base, burst' = burst,
           NEW d \in Client, conn'[d] = Wake(hub', conn)[d],
           written'[d] = written[d], lastId'[d] = lastId[d], known'[d] = known[d],
           cut'[d] = cut[d], d \notin old' => d \notin old
    PROVE  Safe(d)'
  <1>1. /\ Window(hub, base, sent) /\ sent \in Nat /\ base \in Nat /\ burst \in Nat
        /\ HubTypeOK /\ hub.seq \in Nat /\ Unflushed(hub) \in {0, 1}
        /\ ReaderInv(d) /\ conn[d].cursor \in Nat
    BY InvFacts DEF StreamInv, Safe
  <1>2. /\ hub'.pending = <<>> /\ hub'.seq = hub.seq + Unflushed(hub) /\ Grows(hub, hub', base)
    BY <1>1, FlushFacts
  <1>3. Unflushed(hub') = 0 /\ hub'.seq \in Nat
    BY <1>1, <1>2 DEF Unflushed
  <1>4. /\ conn'[d].cursor = conn[d].cursor
        /\ conn'[d].pc = IF hub'.seq # hub.seq /\ conn[d].pc = "waiting"
                         THEN "woken" ELSE conn[d].pc
    BY <1>1, WakeFacts
  <1>5. conn'[d].pc \in {"loop", "woken"}
          => hub'.seq + Unflushed(hub') - conn[d].cursor <= burst' + 1
    <2>1. CASE conn[d].pc = "waiting"
      <3>1. conn[d].cursor = hub.seq
        BY <1>1, <2>1 DEF ReaderInv
      <3> QED BY <1>1, <1>2, <1>3, <3>1
    <2>2. CASE conn[d].pc \in {"loop", "woken"}
      <3>1. hub.seq + Unflushed(hub) - conn[d].cursor <= burst + 1
        BY <1>1, <2>2 DEF ReaderInv, Lag
      <3> QED BY <1>1, <1>2, <1>3, <3>1
    <2> QED BY <1>4, <2>1, <2>2
  <1>6. /\ \/ conn'[d].pc = conn[d].pc
           \/ conn[d].pc = "waiting" /\ conn'[d].pc = "woken"
        /\ conn'[d].pc = "waiting" => hub'.seq = hub.seq
    BY <1>4
  <1>7. Unflushed(hub') \in {0, 1} /\ burst' \in Nat
    BY <1>1, <1>3
  <1> QED BY <1>2, <1>3, <1>4, <1>5, <1>6, <1>7, Kept

LEMMA FlushTimerKeeps ==
    ASSUME StreamInv, FlushTimer
    PROVE  StreamInv'
  <1>1. /\ hub' = Flush(hub, sent) /\ conn' = Wake(hub', conn)
        /\ UNCHANGED <<written, lastId, known, sent, lastDone, base, cut, old, burst>>
    BY DEF FlushTimer
  <1>2. /\ HubTypeOK /\ Window(hub, base, sent) /\ LastDone(hub, base, lastDone)
        /\ sent \in Nat /\ base \in Nat /\ lastDone \in Nat
    BY DEF StreamInv, HubTypeOK
  <1>3. Window(hub', base, sent) /\ LastDone(hub', base, lastDone)
    BY <1>1, <1>2, FlushFacts
  <1>4. conn' \in [Client -> Connection]
    BY <1>1, <1>2, WakeFacts
  <1>5. ASSUME NEW d \in Client PROVE Safe(d)'
    BY <1>1, FlushKeepsOthers
  <1>6. HubTypeOK'
    BY <1>1, <1>2, <1>4 DEF HubTypeOK, Connection
  <1> QED BY <1>1, <1>3, <1>5, <1>6 DEF StreamInv

\* The window of a hub that has just started.
LEMMA EmptyWindow ==
    ASSUME NEW b \in Nat
    PROVE  Window(EmptyHub, b, b) /\ LastDone(EmptyHub, b, b)
  <1>1. /\ EmptyHub.events = <<>> /\ EmptyHub.seq = 0 /\ EmptyHub.pending = <<>>
        /\ EmptyHub \in Hub
    <2>1. <<>> \in Seq(Event) /\ <<>> \in Seq([part : Part, from : Nat])
      OBVIOUS
    <2> QED BY <2>1 DEF EmptyHub, Hub
  <1>2. Window(EmptyHub, b, b)
    <2>1. Len(<<>>) = 0 /\ DOMAIN <<>> = {} /\ 0 < Retain
      BY HubAssumption
    <2>2. EndOf(EmptyHub, b) = b
      BY <1>1 DEF EndOf
    <2> QED BY <1>1, <2>1, <2>2 DEF Window
  <1>3. LastDone(EmptyHub, b, b)
    BY <1>1 DEF LastDone
  <1> QED BY <1>2, <1>3

LEMMA HubLostKeeps ==
    ASSUME StreamInv, HubLost
    PROVE  StreamInv'
  <1>1. /\ hub' = EmptyHub /\ base' = sent /\ lastDone' = sent /\ sent' = sent
        /\ conn' = [c \in Client |-> Closed] /\ written' = [c \in Client |-> <<>>]
        /\ cut' = [c \in Client |-> FALSE] /\ burst' = 0
        /\ old' = {c \in Client : lastId[c] > 0} /\ lastId' = lastId /\ known' = known
    BY DEF HubLost
  <1>2. HubTypeOK /\ sent \in Nat
    BY DEF StreamInv, HubTypeOK
  <1>3. Window(EmptyHub, sent, sent) /\ LastDone(EmptyHub, sent, sent)
    BY <1>2, EmptyWindow
  <1>6. HubTypeOK'
    <2>1. MaxBurst \in Nat
      BY HubAssumption
    <2>2. conn' \in [Client -> [pc : {"closed", "loop", "waiting", "woken"}, cursor : Nat]]
      BY <1>1 DEF Closed
    <2>3. written' \in [Client -> Seq(Event)]
      BY <1>1
    <2> QED BY <1>1, <1>2, <2>1, <2>2, <2>3 DEF HubTypeOK
  <1>7. ASSUME NEW c \in Client PROVE Safe(c)'
    <2>1. /\ conn'[c].pc = "closed" /\ written'[c] = <<>> /\ cut'[c] = FALSE
          /\ lastId'[c] = lastId[c] /\ lastId[c] \in Nat
      BY <1>1, <1>2 DEF Closed, HubTypeOK
    <2>2. ReaderInv(c)'
      BY <2>1 DEF ReaderInv
    <2>3. Chain(written[c], hub, base, conn[c].cursor)'
      BY <2>1 DEF Chain
    <2>4. c \notin old' => ~(lastId'[c] > 0)
      BY <1>1, <2>1
    <2>5. c \notin old' => ClientInv(c)'
      BY <2>1, <2>4 DEF ClientInv
    <2> QED BY <2>2, <2>3, <2>5 DEF Safe
  <1> QED BY <1>1, <1>3, <1>6, <1>7 DEF StreamInv

-----------------------------------------------------------------------------
(* The steps of a connection and of its client.                             *)

\* Nothing happens to a client but that it may be woken, and the hub stays.
LEMMA StayingKeepsOthers ==
    ASSUME StreamInv, hub' = hub, base' = base, burst' = burst, NEW d \in Client,
           conn'[d] = conn[d] \/ conn'[d] = Awake(conn)[d],
           written'[d] = written[d], lastId'[d] = lastId[d], known'[d] = known[d],
           cut'[d] = cut[d], d \notin old' => d \notin old
    PROVE  Safe(d)'
  <1>1. /\ burst \in Nat /\ HubTypeOK /\ hub.seq \in Nat /\ Unflushed(hub) \in {0, 1}
        /\ ReaderInv(d) /\ conn[d].cursor \in Nat
    BY InvFacts DEF StreamInv, Safe
  <1>2. Grows(hub, hub', base)
    BY <1>1 DEF Grows
  <1>3. /\ conn'[d].cursor = conn[d].cursor
        /\ \/ conn'[d].pc = conn[d].pc
           \/ conn[d].pc = "waiting" /\ conn'[d].pc = "woken"
    BY <1>1, WakeFacts
  <1>4. conn'[d].pc \in {"loop", "woken"}
          => hub'.seq + Unflushed(hub') - conn[d].cursor <= burst' + 1
    <2>1. CASE conn[d].pc = "waiting"
      <3>1. conn[d].cursor = hub.seq
        BY <1>1, <2>1 DEF ReaderInv
      <3> QED BY <1>1, <3>1
    <2>2. CASE conn[d].pc \in {"loop", "woken"}
      BY <1>1, <2>2 DEF ReaderInv, Lag
    <2> QED BY <1>3, <2>1, <2>2
  <1> QED BY <1>1, <1>2, <1>3, <1>4, Kept

LEMMA DisconnectKeeps ==
    ASSUME StreamInv, NEW c \in Client, Disconnect(c)
    PROVE  StreamInv'
  <1> DEFINE cs == [conn EXCEPT ![c] = Closed]
  <1>1. /\ conn' = Awake(cs) /\ written' = [written EXCEPT ![c] = <<>>]
        /\ cut' = [cut EXCEPT ![c] = FALSE]
        /\ UNCHANGED <<hub, lastId, known, sent, lastDone, base, old, burst>>
    BY DEF Disconnect
  <1>2. /\ HubTypeOK /\ Window(hub, base, sent) /\ LastDone(hub, base, lastDone)
    BY DEF StreamInv
  <1>3. conn \in [Client -> Connection] /\ Closed \in Connection
    BY <1>2 DEF HubTypeOK, Connection, Closed
  <1>4. /\ conn'[c] = Closed
        /\ \A d \in Client \ {c} : conn'[d] = Awake(conn)[d]
    BY <1>1, <1>3 DEF Awake, Closed
  <1>5. conn' \in [Client -> Connection]
    <2>1. \A d \in Client : Awake(conn)[d] \in Connection
      BY <1>2, WakeFacts
    <2>2. \A d \in Client : conn'[d] \in Connection
      BY <1>3, <1>4, <2>1
    <2>3. conn' = [d \in Client |-> conn'[d]]
      BY <1>1 DEF Awake
    <2> QED BY <2>2, <2>3
  <1>8. /\ written' \in [Client -> Seq(Event)] /\ cut' \in [Client -> BOOLEAN]
        /\ written'[c] = <<>> /\ cut'[c] = FALSE
        /\ \A d \in Client \ {c} : written'[d] = written[d] /\ cut'[d] = cut[d]
    <2>1. <<>> \in Seq(Event)
      OBVIOUS
    <2> QED BY <1>1, <1>2, <2>1 DEF HubTypeOK
  <1>6. HubTypeOK'
    BY <1>1, <1>2, <1>5, <1>8 DEF HubTypeOK, Connection
  <1>7. ASSUME NEW d \in Client PROVE Safe(d)'
    <2>1. CASE d # c
      BY <1>1, <1>4, <1>8, <2>1, StayingKeepsOthers
    <2>2. CASE d = c
      <3>1. /\ conn'[c].pc = "closed" /\ written'[c] = <<>> /\ cut'[c] = FALSE
            /\ lastId'[c] = lastId[c] /\ known'[c] = known[c]
        BY <1>1, <1>4, <1>8 DEF Closed
      <3>2. ReaderInv(c)' /\ Chain(written[c], hub, base, conn[c].cursor)'
        BY <3>1 DEF ReaderInv, Chain
      <3>3. c \notin old => ClientInv(c)
        BY InvFacts DEF Safe
      <3>4. c \notin old' => ClientInv(c)'
        BY <1>1, <3>1, <3>3 DEF ClientInv
      <3> QED BY <2>2, <3>2, <3>4 DEF Safe
    <2> QED BY <2>1, <2>2
  <1> QED BY <1>1, <1>2, <1>6, <1>7 DEF StreamInv

\* Where the hub is, everything has been had.
LEMMA PlacedAtEnd ==
    ASSUME NEW h, NEW b \in Nat, NEW n \in Nat, Window(h, b, n)
    PROVE  Placed(h, b, h.seq, EndOf(h, b)) /\ h.seq >= Before(h)
  <1>1. h.seq \in Nat /\ Before(h) \in Nat /\ h.seq >= Before(h)
    BY WindowFacts
  <1>2. Covered(h, b, h.seq) = EndOf(h, b)
    BY DEF Covered
  <1> QED BY <1>1, <1>2 DEF Placed

LEMMA ConnectStaleKeeps ==
    ASSUME StreamInv, NEW c \in Client, ConnectStale(c)
    PROVE  StreamInv'
  <1> DEFINE e == [seq |-> hub.seq, from |-> 0, to |-> LastTo, kind |-> "reset"]
             k == [pc |-> "loop", cursor |-> hub.seq]
  <1>1. /\ conn[c].pc = "closed" /\ conn' = [conn EXCEPT ![c] = k]
        /\ written' = [written EXCEPT ![c] = <<e>>]
        /\ UNCHANGED <<hub, lastId, known, sent, lastDone, base, cut, old, burst>>
    BY DEF ConnectStale
  <1>2. /\ HubTypeOK /\ Window(hub, base, sent) /\ LastDone(hub, base, lastDone)
        /\ hub.seq \in Nat /\ sent \in Nat /\ base \in Nat /\ burst \in Nat
        /\ Unflushed(hub) \in {0, 1} /\ Safe(c) /\ lastId[c] \in Nat
        /\ conn \in [Client -> Connection]
    BY InvFacts DEF StreamInv, HubTypeOK, Connection
  <1>3. LastTo \in Nat /\ base <= LastTo /\ Placed(hub, base, hub.seq, LastTo)
    <2>1. LastTo = EndOf(hub, base)
      BY DEF LastTo, EndOf
    <2> QED BY <1>2, <2>1, EndOfFacts, PlacedAtEnd
  <1>4. e \in Event /\ <<e>> \in Seq(Event)
    BY <1>2, <1>3 DEF Event, Kind
  <1>5. k \in Connection
    BY <1>2 DEF Connection
  <1>6. HubTypeOK'
    <2>1. conn' \in [Client -> Connection]
      BY <1>1, <1>2, <1>5
    <2>2. written' \in [Client -> Seq(Event)]
      BY <1>1, <1>2, <1>4 DEF HubTypeOK
    <2> QED BY <1>1, <1>2, <2>1, <2>2 DEF HubTypeOK, Connection
  <1>7. ASSUME NEW d \in Client PROVE Safe(d)'
    <2>1. CASE d # c
      BY <1>1, <1>2, <2>1, StayingKeepsOthers DEF HubTypeOK
    <2>2. CASE d = c
      <3>1. /\ conn'[c] = k /\ written'[c] = <<e>>
            /\ hub' = hub /\ base' = base /\ lastId'[c] = lastId[c]
            /\ known'[c] = known[c] /\ cut'[c] = cut[c] /\ burst' = burst
        BY <1>1, <1>2 DEF HubTypeOK
      <3>2. /\ conn'[c].pc = "loop" /\ conn'[c].cursor = hub.seq
            /\ written'[c] # <<>> /\ Len(written'[c]) = 1 /\ written'[c][1] = e
            /\ DOMAIN written'[c] = {1}
            /\ e.seq = hub.seq /\ e.to = LastTo /\ e.kind = "reset"
        BY <3>1
      <3> HIDE DEF e, k
      <3>3. ReaderInv(c)'
        <4>1. Lag(c)' = hub.seq + Unflushed(hub) - hub.seq
          BY <3>1, <3>2 DEF Lag
        <4>2. Lag(c)' <= burst' + 1
          BY <1>2, <3>1, <4>1
        <4> QED BY <1>2, <3>1, <3>2, <4>2 DEF ReaderInv
      <3>4. Chain(written[c], hub, base, conn[c].cursor)'
        BY <1>2, <1>3, <3>1, <3>2 DEF Chain
      <3>5. c \notin old' => ClientInv(c)'
        <4>1. SUFFICES ASSUME c \notin old PROVE ClientInv(c)'
          BY <1>1
        <4>2. lastId[c] > 0 => known[c] >= base /\ Placed(hub, base, lastId[c], known[c])
          BY <1>2, <4>1 DEF Safe, ClientInv
        <4>3. lastId[c] <= hub.seq
          BY <1>2, <4>2 DEF Placed
        <4> QED BY <3>1, <3>2, <4>2, <4>3 DEF ClientInv
      <3> QED BY <2>2, <3>3, <3>4, <3>5 DEF Safe
    <2> QED BY <2>1, <2>2
  <1> QED BY <1>1, <1>2, <1>6, <1>7 DEF StreamInv

LEMMA ReceiveKeeps ==
    ASSUME StreamInv, NEW c \in Client, Receive(c)
    PROVE  StreamInv'
  <1> DEFINE w == written[c]
             e == Head(w)
             r == Tail(w)
  <1>1. /\ w # <<>>
        /\ lastId' = [lastId EXCEPT ![c] = Larger(@, e.seq)]
        /\ known' = [known EXCEPT ![c] = e.to]
        /\ old' = IF e.seq >= lastId[c] THEN old \ {c} ELSE old
        /\ written' = [written EXCEPT ![c] = r] /\ cut' = [cut EXCEPT ![c] = FALSE]
        /\ UNCHANGED <<hub, conn, sent, lastDone, base, burst>>
    BY DEF Receive
  <1>2. /\ HubTypeOK /\ Window(hub, base, sent) /\ LastDone(hub, base, lastDone)
        /\ base \in Nat /\ w \in Seq(Event) /\ lastId[c] \in Nat /\ conn[c].cursor \in Nat
        /\ Safe(c) /\ hub.seq \in Nat
    BY InvFacts DEF StreamInv, HubTypeOK
  <1>3. /\ Len(w) \in Nat \ {0} /\ DOMAIN w = 1..Len(w)
        /\ \A i \in 1..Len(w) : w[i] \in Event
        /\ e = w[1] /\ 1 \in 1..Len(w)
        /\ r \in Seq(Event) /\ Len(r) = Len(w) - 1
        /\ \A i \in 1..(Len(w) - 1) : r[i] = w[i + 1]
    <2>1. Len(w) \in Nat \ {0} /\ DOMAIN w = 1..Len(w)
      BY <1>1, <1>2
    <2>2. \A i \in 1..Len(w) : w[i] \in Event
      BY <1>2
    <2>3. e = w[1] /\ r \in Seq(Event) /\ Len(r) = Len(w) - 1
      BY <1>1, <1>2
    <2>4. \A i \in 1..(Len(w) - 1) : r[i] = w[i + 1]
      BY <1>1, <1>2
    <2> QED BY <2>1, <2>2, <2>3, <2>4
  <1>4. e.seq \in Nat /\ e.to \in Nat
    BY <1>3 DEF Event
  <1> DEFINE W == Len(w)
  <1> HIDE DEF w, e, r, W
  <1>5. /\ \A i \in 1..W :
             /\ base <= w[i].to /\ Placed(hub, base, w[i].seq, w[i].to)
             /\ i > 1 => w[i].from = w[i - 1].to + 1 /\ w[i].kind # "reset"
             /\ \A j \in 1..W : i < j => w[i].seq < w[j].seq
        /\ w[W].seq = conn[c].cursor
        /\ Chain(w, hub, base, conn[c].cursor)
    BY <1>1, <1>2, <1>3 DEF Safe, Chain, w, W
  <1>6. e.seq <= conn[c].cursor
    BY <1>2, <1>3, <1>5, ChainUpTo
  <1>7. /\ lastId'[c] = Larger(lastId[c], e.seq) /\ known'[c] = e.to /\ written'[c] = r
        /\ cut'[c] = FALSE
        /\ lastId' \in [Client -> Nat] /\ known' \in [Client -> Nat]
        /\ written' \in [Client -> Seq(Event)] /\ cut' \in [Client -> BOOLEAN]
        /\ \A d \in Client \ {c} : /\ lastId'[d] = lastId[d] /\ known'[d] = known[d]
                                   /\ written'[d] = written[d] /\ cut'[d] = cut[d]
    <2>1. Larger(lastId[c], e.seq) \in Nat
      BY <1>2, <1>4 DEF Larger
    <2> QED BY <1>1, <1>2, <1>3, <1>4, <2>1 DEF HubTypeOK
  <1>8. HubTypeOK'
    BY <1>1, <1>2, <1>7 DEF HubTypeOK
  <1>9. ASSUME NEW d \in Client, d # c PROVE Safe(d)'
    BY <1>1, <1>7, <1>9, StayingKeepsOthers
  <1>10. /\ DOMAIN r = 1..(W - 1) /\ Len(r) = W - 1 /\ W \in Nat /\ W >= 1
         /\ r # <<>> <=> W > 1
    <2>1. /\ Len(r) = W - 1 /\ W \in Nat /\ W >= 1 /\ DOMAIN r = 1..Len(r)
          /\ r # <<>> <=> Len(r) # 0
      BY <1>3 DEF W
    <2> QED BY <2>1
  <1>11. \A i \in 1..(W - 1) : r[i] = w[i + 1] /\ i + 1 \in 1..W
    BY <1>3, <1>10 DEF W
  <1>12. Chain(r, hub, base, conn[c].cursor)
    <2>1. ASSUME NEW i \in 1..(W - 1)
          PROVE  /\ base <= r[i].to /\ Placed(hub, base, r[i].seq, r[i].to)
                 /\ i > 1 => r[i].from = r[i - 1].to + 1 /\ r[i].kind # "reset"
                 /\ \A j \in 1..(W - 1) : i < j => r[i].seq < r[j].seq
      <3>1. i > 1 => i - 1 \in 1..(W - 1) /\ i - 1 + 1 = i
        BY <1>10
      <3>2. i > 1 => r[i - 1] = w[i]
        BY <1>11, <3>1
      <3>3. i + 1 > 1 /\ i + 1 - 1 = i
        OBVIOUS
      <3>4. w[i + 1].from = w[i].to + 1 /\ w[i + 1].kind # "reset"
        BY <1>5, <1>11, <3>3
      <3>5. \A j \in 1..(W - 1) : i < j => i + 1 < j + 1
        BY <1>10
      <3> QED BY <1>5, <1>11, <3>2, <3>4, <3>5
    <2>2. r # <<>> => r[W - 1].seq = conn[c].cursor
      <3>1. r # <<>> => W - 1 \in 1..(W - 1) /\ W - 1 + 1 = W
        BY <1>10
      <3> QED BY <1>5, <1>11, <3>1
    <2> QED BY <1>10, <2>1, <2>2 DEF Chain
  <1>13. ReaderInv(c)'
    <2>1. conn[c].pc # "closed"
      BY <1>1, <1>2 DEF Safe, ReaderInv, w
    <2>2. Lag(c)' = Lag(c)
      BY <1>1 DEF Lag
    <2> QED BY <1>1, <1>2, <1>7, <2>1, <2>2 DEF Safe, ReaderInv
  <1>14. ASSUME c \notin old' PROVE ClientInv(c)'
    <2>1. lastId'[c] = e.seq
      <3>1. lastId[c] <= e.seq
        <4>1. CASE c \in old
          BY <1>1, <1>2, <1>4, <1>14, <4>1
        <4>2. CASE c \notin old
          <5>1. conn[c].pc # "closed"
            BY <1>1, <1>2 DEF Safe, ReaderInv, w
          <5> QED BY <1>1, <1>2, <1>3, <4>2, <5>1 DEF Safe, ClientInv, w
        <4> QED BY <4>1, <4>2
      <3> QED BY <1>2, <1>4, <1>7, <3>1 DEF Larger
    <2>2. /\ base <= e.to /\ Placed(hub, base, e.seq, e.to)
      BY <1>3, <1>5 DEF W
    <2>3. Larger(e.to, base) = e.to
      BY <1>2, <1>4, <2>2 DEF Larger
    <2>4. r = <<>> => e.seq = conn[c].cursor
      <3>1. r = <<>> => W = 1
        BY <1>10
      <3> QED BY <1>3, <1>5, <3>1
    <2>5. r # <<>> => r[1].from = e.to + 1 /\ e.seq <= r[1].seq
      <3>1. r # <<>> => 1 \in 1..(W - 1) /\ 1 + 1 = 2 /\ 2 \in 1..W /\ 1 \in 1..W /\ 1 < 2
                        /\ 2 - 1 = 1
        BY <1>10
      <3>2. r # <<>> => r[1] = w[2] /\ w[2].from = w[1].to + 1 /\ w[1].seq < w[2].seq
                        /\ w[2].seq \in Nat
        <4>1. SUFFICES ASSUME r # <<>>
                       PROVE  /\ r[1] = w[2] /\ w[2].from = w[1].to + 1
                              /\ w[1].seq < w[2].seq /\ w[2].seq \in Nat
          OBVIOUS
        <4>2. r[1] = w[2]
          BY <1>11, <3>1, <4>1
        <4>3. w[2].from = w[1].to + 1 /\ w[1].seq < w[2].seq
          BY <1>5, <3>1, <4>1
        <4>4. w[2] \in Event
          BY <1>3, <3>1, <4>1 DEF W
        <4> QED BY <4>2, <4>3, <4>4 DEF Event
      <3> QED BY <1>3, <1>4, <3>2
    <2>6. e.to >= base
      BY <1>2, <1>4, <2>2
    <2>7. Larger(known[c], base)' = e.to
      BY <1>1, <1>7, <2>3 DEF Larger
    <2> QED BY <1>1, <1>6, <1>7, <2>1, <2>2, <2>3, <2>4, <2>5, <2>6, <2>7 DEF ClientInv
  <1>15. Safe(c)'
    BY <1>1, <1>7, <1>12, <1>13, <1>14 DEF Safe
  <1> QED BY <1>1, <1>2, <1>8, <1>9, <1>15 DEF StreamInv

\* The last event of what was returned is where next() is then.
LEMMA WroteFacts ==
    ASSUME NEW c \in Client, NEW cs \in [Client -> Connection], NEW batch \in Seq(Event),
           Wrote(c, cs, batch), HubTypeOK
    PROVE  /\ conn' \in [Client -> Connection] /\ written' \in [Client -> Seq(Event)]
           /\ conn'[c].pc = "loop"
           /\ conn'[c].cursor = IF batch = <<>> THEN cs[c].cursor ELSE batch[Len(batch)].seq
           /\ written'[c] = written[c] \o batch
           /\ \A d \in Client \ {c} : conn'[d] = cs[d] /\ written'[d] = written[d]
  <1> DEFINE x == IF batch = <<>> THEN cs[c].cursor ELSE batch[Len(batch)].seq
             k == [pc |-> "loop", cursor |-> x]
  <1>1. /\ conn' = [cs EXCEPT ![c] = k]
        /\ written' = [written EXCEPT ![c] = written[c] \o batch]
    BY DEF Wrote
  <1>2. x \in Nat
    <2>1. CASE batch = <<>>
      BY <2>1 DEF Connection
    <2>2. CASE batch # <<>>
      <3>1. Len(batch) \in 1..Len(batch)
        BY <2>2
      <3>2. batch[Len(batch)] \in Event
        BY <3>1
      <3> QED BY <2>2, <3>2 DEF Event
    <2> QED BY <2>1, <2>2
  <1> HIDE DEF x
  <1>3. k \in Connection /\ k.pc = "loop" /\ k.cursor = x
    BY <1>2 DEF Connection
  <1>4. written \in [Client -> Seq(Event)] /\ written[c] \o batch \in Seq(Event)
    BY DEF HubTypeOK
  <1> HIDE DEF k
  <1>5. /\ conn' \in [Client -> Connection] /\ conn'[c] = k
        /\ \A d \in Client \ {c} : conn'[d] = cs[d]
    BY <1>1, <1>3
  <1>6. /\ written' \in [Client -> Seq(Event)] /\ written'[c] = written[c] \o batch
        /\ \A d \in Client \ {c} : written'[d] = written[d]
    BY <1>1, <1>4
  <1> QED BY <1>3, <1>5, <1>6 DEF x

\* What comes first when something is written after w.
LEMMA FirstWritten ==
    ASSUME NEW w \in Seq(Event), NEW u \in Seq(Event)
    PROVE  /\ w \o u = <<>> <=> w = <<>> /\ u = <<>>
           /\ w # <<>> => (w \o u)[1] = w[1]
           /\ w = <<>> => w \o u = u
  <1>1. /\ Len(w) \in Nat /\ Len(u) \in Nat /\ Len(w \o u) = Len(w) + Len(u)
        /\ w \o u \in Seq(Event)
        /\ \A i \in 1..(Len(w) + Len(u)) :
              (w \o u)[i] = IF i <= Len(w) THEN w[i] ELSE u[i - Len(w)]
    BY ConcatProperties
  <1>2. (w = <<>> <=> Len(w) = 0) /\ (u = <<>> <=> Len(u) = 0)
        /\ (w \o u = <<>> <=> Len(w \o u) = 0)
    BY <1>1
  <1>3. w \o u = <<>> <=> w = <<>> /\ u = <<>>
    BY <1>1, <1>2
  <1>4. w # <<>> => (w \o u)[1] = w[1]
    BY <1>1, <1>2
  <1>5. w = <<>> => w \o u = u
    BY ConcatEmptySeq
  <1> QED BY <1>3, <1>4, <1>5

LEMMA ResumedKeeps ==
    ASSUME StreamInv, NEW c \in Client, Resumed(c)
    PROVE  StreamInv'
  <1> DEFINE w == written[c]
             s == conn[c].cursor
             u == Since(hub, s)
             has == Larger(known[c], base)
  <1>1. /\ conn[c].pc = "woken" /\ Wrote(c, conn, u)
        /\ UNCHANGED <<hub, lastId, known, sent, lastDone, base, cut, old, burst>>
    BY DEF Resumed
  <1>2. /\ HubTypeOK /\ Window(hub, base, sent) /\ LastDone(hub, base, lastDone)
        /\ hub.seq \in Nat /\ Unflushed(hub) \in {0, 1} /\ sent \in Nat /\ base \in Nat
        /\ burst \in Nat /\ s \in Nat /\ w \in Seq(Event) /\ lastId[c] \in Nat
        /\ known[c] \in Nat
        /\ conn \in [Client -> Connection]
        /\ ReaderInv(c) /\ Chain(w, hub, base, s) /\ (c \notin old => ClientInv(c))
    BY InvFacts DEF StreamInv, HubTypeOK, Connection, Safe
  <1>3. s <= hub.seq /\ s >= Before(hub)
    <2>1. s <= hub.seq
      BY <1>1, <1>2 DEF ReaderInv
    <2>2. hub.seq <= hub.seq + Unflushed(hub)
      BY <1>2
    <2>3. conn[c].pc # "closed"
      BY <1>1
    <2>4. s >= Before(hub)
      BY <1>2, <2>2, <2>3, InWindow
    <2> QED BY <2>1, <2>4
  <1> HIDE DEF w, s, u, has
  <1>4. /\ u \in Seq(Event) /\ (u = <<>> <=> s = hub.seq)
        /\ Chain(u, hub, base, hub.seq)
        /\ u # <<>> => /\ u[1].kind # "reset" /\ s < u[1].seq
                       /\ s >= Before(hub) => u[1].from = Covered(hub, base, s) + 1
                                              /\ u[1].seq = s + 1
                       /\ s < Before(hub) => u[1] = hub.events[1]
    BY <1>2, <1>3, SinceChain DEF u
  <1>5. /\ conn' \in [Client -> Connection] /\ written' \in [Client -> Seq(Event)]
        /\ conn'[c].pc = "loop" /\ written'[c] = w \o u
        /\ conn'[c].cursor = IF u = <<>> THEN s ELSE u[Len(u)].seq
        /\ \A d \in Client \ {c} : conn'[d] = conn[d] /\ written'[d] = written[d]
    BY <1>1, <1>2, <1>4, WroteFacts DEF s, w
  <1>6. conn'[c].cursor = hub.seq
    BY <1>4, <1>5 DEF Chain
  <1>7. HubTypeOK'
    BY <1>1, <1>2, <1>5 DEF HubTypeOK, Connection
  <1>8. ASSUME NEW d \in Client, d # c PROVE Safe(d)'
    BY <1>1, <1>5, <1>8, StayingKeepsOthers
  <1>9. Chain(w \o u, hub, base, hub.seq)
    BY <1>2, <1>3, <1>4, ChainExtends
  <1>10. /\ w \o u = <<>> <=> w = <<>> /\ u = <<>>
         /\ w # <<>> => (w \o u)[1] = w[1]
         /\ w = <<>> => w \o u = u
    BY <1>2, <1>4, FirstWritten
  <1>11. ReaderInv(c)'
    <2>1. Lag(c)' = hub.seq + Unflushed(hub) - hub.seq
      BY <1>1, <1>6 DEF Lag
    <2>2. Lag(c)' <= burst' + 1
      BY <1>1, <1>2, <2>1
    <2>3. cut'[c] => written'[c] # <<>>
      BY <1>1, <1>2, <1>5, <1>10 DEF ReaderInv, w
    <2> QED BY <1>1, <1>2, <1>5, <1>6, <2>2, <2>3 DEF ReaderInv
  <1>12. ASSUME c \notin old' PROVE ClientInv(c)'
    <2>1. /\ c \notin old /\ conn[c].pc # "closed"
      BY <1>1, <1>12
    <2>2. /\ lastId[c] > 0 => known[c] >= base /\ Placed(hub, base, lastId[c], known[c])
          /\ lastId[c] <= s
          /\ w = <<>> => Placed(hub, base, s, has)
          /\ w # <<>> => lastId[c] <= w[1].seq
          /\ w # <<>> /\ ~cut[c] /\ w[1].kind # "reset" => w[1].from = has + 1
      BY <1>2, <2>1 DEF ClientInv, w, s, has
    <2>3. lastId[c] <= hub.seq
      BY <1>2, <1>3, <2>2
    <2>4. w = <<>> /\ u # <<>> => u[1].from = has + 1 /\ lastId[c] <= u[1].seq
      <3>1. SUFFICES ASSUME w = <<>>, u # <<>>
                     PROVE  u[1].from = has + 1 /\ lastId[c] <= u[1].seq
        OBVIOUS
      <3>2. has = Covered(hub, base, s)
        BY <1>3, <2>2, <3>1 DEF Placed
      <3>3. u[1].seq \in Nat
        <4>1. u[1] \in Event
          BY <1>4, <3>1
        <4> QED BY <4>1 DEF Event
      <3> QED BY <1>2, <1>3, <1>4, <2>2, <3>1, <3>2, <3>3
    <2>5. w = <<>> /\ u = <<>> => Placed(hub, base, hub.seq, has)
      BY <1>4, <2>2
    <2>6. /\ w \o u = <<>> => Placed(hub, base, hub.seq, has)
          /\ w \o u # <<>> => lastId[c] <= (w \o u)[1].seq
          /\ w \o u # <<>> /\ ~cut[c] /\ (w \o u)[1].kind # "reset"
               => (w \o u)[1].from = has + 1
      BY <1>10, <2>2, <2>4, <2>5
    <2>7. has' = has
      BY <1>1 DEF has, Larger
    <2>8. /\ written'[c] = w \o u /\ conn'[c].cursor = hub.seq /\ hub' = hub
          /\ base' = base /\ lastId'[c] = lastId[c] /\ known'[c] = known[c]
          /\ cut'[c] = cut[c]
      BY <1>1, <1>5, <1>6
    <2> QED BY <2>2, <2>3, <2>6, <2>7, <2>8 DEF ClientInv, has
  <1>13. Safe(c)'
    <2>1. Chain(written[c], hub, base, conn[c].cursor)'
      BY <1>1, <1>5, <1>6, <1>9
    <2> QED BY <1>11, <1>12, <2>1 DEF Safe
  <1> QED BY <1>1, <1>2, <1>7, <1>8, <1>13 DEF StreamInv

LEMMA ReturnedFacts ==
    ASSUME StreamInv, NEW s \in Nat, s <= hub.seq, NEW g, g = Flush(hub, sent)
    PROVE  /\ Since(g, s) \in Seq(Event) /\ (Since(g, s) = <<>> <=> s = g.seq)
           /\ Chain(Since(g, s), g, base, g.seq)
           /\ Since(g, s) # <<>> =>
                /\ Since(g, s)[1].kind # "reset" /\ s < Since(g, s)[1].seq
                /\ s >= Before(g) => Since(g, s)[1].from = Covered(g, base, s) + 1
           /\ Since(hub, s) \in Seq(Event) /\ (Since(hub, s) = <<>> <=> s = hub.seq)
           /\ Since(hub, s) # <<>> =>
                /\ s >= Before(hub) => Since(hub, s)[1].from = Covered(hub, base, s) + 1
                /\ s < Before(hub) => Since(hub, s)[1] = hub.events[1]
  <1>1. Window(hub, base, sent) /\ sent \in Nat /\ base \in Nat
    BY DEF StreamInv, HubTypeOK
  <1>2. hub.seq \in Nat /\ Unflushed(hub) \in {0, 1}
    BY <1>1, WindowFacts DEF Unflushed
  <1>3. Window(g, base, sent) /\ g.seq = hub.seq + Unflushed(hub)
    BY <1>1, FlushFacts
  <1>4. s <= g.seq
    BY <1>2, <1>3
  <1>5. PICK u : u = Since(g, s)
    OBVIOUS
  <1>6. PICK v : v = Since(hub, s)
    OBVIOUS
  <1>7. /\ u \in Seq(Event) /\ (u = <<>> <=> s = g.seq)
        /\ Chain(u, g, base, g.seq)
        /\ u # <<>> => /\ u[1].kind # "reset" /\ s < u[1].seq
                       /\ s >= Before(g) => u[1].from = Covered(g, base, s) + 1
                                               /\ u[1].seq = s + 1
                       /\ s < Before(g) => u[1] = g.events[1]
    <2>1. u \in Seq(Event) /\ (u = <<>> <=> s = g.seq) /\ Chain(u, g, base, g.seq)
      BY <1>1, <1>3, <1>4, <1>5, SinceChain
    <2>2. u # <<>> => /\ u[1].kind # "reset" /\ s < u[1].seq
                      /\ s >= Before(g) => u[1].from = Covered(g, base, s) + 1
                                              /\ u[1].seq = s + 1
      BY <1>1, <1>3, <1>4, <1>5, SinceChain
    <2>3. u # <<>> /\ s < Before(g) => u[1] = g.events[1]
      BY <1>1, <1>3, <1>4, <1>5, SinceChain
    <2> QED BY <2>1, <2>2, <2>3
  <1>8. /\ v \in Seq(Event) /\ (v = <<>> <=> s = hub.seq)
        /\ Chain(v, hub, base, hub.seq)
        /\ v # <<>> => /\ v[1].kind # "reset" /\ s < v[1].seq
                       /\ s >= Before(hub) => v[1].from = Covered(hub, base, s) + 1
                                              /\ v[1].seq = s + 1
                       /\ s < Before(hub) => v[1] = hub.events[1]
    BY <1>1, <1>6, SinceChain
  <1> QED BY <1>5, <1>6, <1>7, <1>8

\* A call of next(): the flush, and what is returned at once.
LEMMA ReadKeeps ==
    ASSUME StreamInv, NEW c \in Client, NEW s \in Nat, s <= hub.seq, Read(c, s),
           UNCHANGED <<lastId, sent, lastDone, base, old, burst>>,
           known' \in [Client -> Nat], \A d \in Client \ {c} : known'[d] = known[d],
           Chain(written[c], hub, base, s),
           written[c] # <<>>
             => s = conn[c].cursor /\ conn[c].pc # "closed" /\ known'[c] = known[c],
           lastId[c] > 0 => known'[c] = known[c],
           c \notin old => lastId[c] <= s,
           c \notin old /\ written[c] = <<>> =>
             /\ s >= Before(hub) => Placed(hub, base, s, Larger(known'[c], base))
             /\ s < Before(hub) => hub.events[1].from = Larger(known'[c], base) + 1
    PROVE  StreamInv'
  <1> DEFINE w == written[c]
             g == hub'
             u == Since(g, s)
             v == Since(hub, s)
             k == [pc |-> "waiting", cursor |-> s]
             cs == [Wake(g, conn) EXCEPT ![c] = k]
             has == Larger(known'[c], base)
  <1>1. /\ g = Flush(hub, sent)
        /\ IF u = <<>> THEN conn' = cs /\ written' = written ELSE Wrote(c, cs, u)
        /\ cut' = [cut EXCEPT ![c] = cut[c] \/ (v # <<>> /\ Head(v) # Head(u))]
        /\ lastId' = lastId /\ sent' = sent /\ lastDone' = lastDone /\ base' = base
        /\ old' = old /\ burst' = burst
    BY DEF Read
  <1>2. /\ HubTypeOK /\ Window(hub, base, sent) /\ LastDone(hub, base, lastDone)
        /\ hub.seq \in Nat /\ Unflushed(hub) \in {0, 1} /\ sent \in Nat /\ base \in Nat
        /\ burst \in Nat /\ w \in Seq(Event) /\ lastId[c] \in Nat /\ lastDone \in Nat
        /\ cut[c] \in BOOLEAN /\ ReaderInv(c) /\ (c \notin old => ClientInv(c))
    BY InvFacts DEF StreamInv, HubTypeOK, Safe
  <1>3. /\ Window(g, base, sent) /\ g.pending = <<>> /\ g.seq = hub.seq + Unflushed(hub)
        /\ Grows(hub, g, base) /\ LastDone(g, base, lastDone)
    BY <1>1, <1>2, FlushFacts
  <1>4. /\ g.seq \in Nat /\ s <= g.seq /\ Unflushed(g) = 0 /\ hub.seq <= g.seq
        /\ g.seq <= hub.seq + Unflushed(hub)
    <2>1. g.seq \in Nat /\ hub.seq <= g.seq /\ g.seq <= hub.seq + Unflushed(hub)
      BY <1>2, <1>3
    <2>2. s <= g.seq
      BY <1>2, <2>1
    <2> QED BY <1>3, <2>1, <2>2 DEF Unflushed
  <1>5. /\ Wake(g, conn) \in [Client -> Connection] /\ k \in Connection
        /\ k.pc = "waiting" /\ k.cursor = s
    BY <1>2, WakeFacts DEF Connection
  <1> HIDE DEF w, g, u, v, k, has
  <1>6. /\ cs \in [Client -> Connection] /\ cs[c] = k
        /\ \A d \in Client \ {c} : cs[d] = Wake(g, conn)[d]
    BY <1>5
  <1> HIDE DEF cs
  <1>7. /\ u \in Seq(Event) /\ (u = <<>> <=> s = g.seq)
        /\ Chain(u, g, base, g.seq)
        /\ u # <<>> => /\ u[1].kind # "reset" /\ s < u[1].seq
                       /\ s >= Before(g) => u[1].from = Covered(g, base, s) + 1
    BY <1>1, ReturnedFacts DEF u
  <1>8. /\ v \in Seq(Event) /\ (v = <<>> <=> s = hub.seq)
        /\ v # <<>> => /\ s >= Before(hub) => v[1].from = Covered(hub, base, s) + 1
                       /\ s < Before(hub) => v[1] = hub.events[1]
    BY <1>1, ReturnedFacts DEF v
  <1>9. /\ conn' \in [Client -> Connection] /\ written' \in [Client -> Seq(Event)]
        /\ conn'[c].pc \in {"waiting", "loop"} /\ written'[c] = w \o u
        /\ conn'[c].cursor = g.seq
        /\ \A d \in Client \ {c} : conn'[d] = Wake(g, conn)[d] /\ written'[d] = written[d]
    <2>1. CASE u = <<>>
      <3>1. conn' = cs /\ written' = written /\ s = g.seq
        BY <1>1, <1>7, <2>1
      <3>2. w \o u = w
        BY <1>2, <2>1, ConcatEmptySeq
      <3>3. written \in [Client -> Seq(Event)]
        BY <1>2 DEF HubTypeOK
      <3> QED BY <1>5, <1>6, <3>1, <3>2, <3>3 DEF w
    <2>2. CASE u # <<>>
      <3>1. Wrote(c, cs, u)
        BY <1>1, <2>2
      <3>2. u[Len(u)].seq = g.seq
        BY <1>7, <2>2 DEF Chain
      <3>3. /\ conn' \in [Client -> Connection] /\ written' \in [Client -> Seq(Event)]
            /\ conn'[c].pc = "loop"
            /\ conn'[c].cursor = IF u = <<>> THEN cs[c].cursor ELSE u[Len(u)].seq
            /\ written'[c] = written[c] \o u
            /\ \A d \in Client \ {c} : conn'[d] = cs[d] /\ written'[d] = written[d]
        BY <1>2, <1>6, <1>7, <3>1, WroteFacts
      <3> QED BY <1>6, <2>2, <3>2, <3>3 DEF w
    <2> QED BY <2>1, <2>2
  <1>10. /\ cut' \in [Client -> BOOLEAN]
         /\ cut'[c] <=> cut[c] \/ (v # <<>> /\ Head(v) # Head(u))
         /\ \A d \in Client \ {c} : cut'[d] = cut[d]
    <2>1. cut \in [Client -> BOOLEAN]
      BY <1>2 DEF HubTypeOK
    <2> QED BY <1>1, <2>1
  <1>11. HubTypeOK'
    BY <1>1, <1>2, <1>9, <1>10 DEF HubTypeOK, Connection
  <1>12. ASSUME NEW d \in Client, d # c PROVE Safe(d)'
    <2>1. conn'[d] = Wake(hub', conn)[d]
      BY <1>9, <1>12 DEF g
    <2>2. hub' = Flush(hub, sent)
      BY <1>1 DEF g
    <2> QED BY <1>1, <1>9, <1>10, <1>12, <2>1, <2>2, FlushKeepsOthers
  <1>13. w # <<>> => s >= Before(g)
    BY <1>2, <1>3, <1>4, InWindow DEF w
  <1>14. Chain(w \o u, g, base, g.seq)
    <2>1. Chain(w, g, base, s)
      BY <1>2, <1>3, ChainGrows DEF w
    <2> QED BY <1>2, <1>7, <1>13, <2>1, ChainExtends
  <1>15. /\ w \o u = <<>> <=> w = <<>> /\ u = <<>>
         /\ w # <<>> => (w \o u)[1] = w[1]
         /\ w = <<>> => w \o u = u
    BY <1>2, <1>7, FirstWritten
  <1>16. v # <<>> => u # <<>> /\ Head(v) = v[1] /\ Head(u) = u[1]
    <2>1. v # <<>> => s # g.seq
      BY <1>2, <1>4, <1>8
    <2> QED BY <1>7, <2>1
  <1>17. ReaderInv(c)'
    <2>1. Lag(c)' = g.seq + Unflushed(g) - g.seq
      BY <1>9 DEF Lag, g
    <2>2. Lag(c)' <= burst' + 1
      BY <1>1, <1>2, <1>4, <2>1
    <2>3. cut'[c] => written'[c] # <<>>
      <3>1. cut[c] => w # <<>>
        BY <1>2 DEF ReaderInv, w
      <3> QED BY <1>9, <1>10, <1>15, <1>16, <3>1
    <2>4. conn'[c].pc # "closed" /\ g.seq <= g.seq
      BY <1>4, <1>9
    <2> QED BY <1>9, <2>2, <2>3, <2>4 DEF ReaderInv, g
  <1>18. ASSUME c \notin old' PROVE ClientInv(c)'
    <2>1. c \notin old /\ ClientInv(c) /\ lastId[c] <= s
      BY <1>1, <1>2, <1>18
    <2>2. has \in Nat /\ known'[c] \in Nat
      BY <1>2 DEF has, Larger
    <2>3. lastId[c] > 0 => known'[c] >= base /\ Placed(g, base, lastId[c], known'[c])
      <3>1. SUFFICES ASSUME lastId[c] > 0
                     PROVE  known'[c] >= base /\ Placed(g, base, lastId[c], known'[c])
        OBVIOUS
      <3>2. known[c] >= base /\ Placed(hub, base, lastId[c], known[c])
        BY <2>1, <3>1 DEF ClientInv
      <3> QED BY <1>2, <1>3, <2>2, <3>1, <3>2 DEF Grows
    <2>4. lastId[c] <= g.seq
      BY <1>2, <1>4, <2>1
    <2>5. w # <<>> =>
            /\ lastId[c] <= w[1].seq
            /\ ~cut[c] /\ w[1].kind # "reset" => w[1].from = has + 1
      BY <2>1 DEF ClientInv, w, has, Larger
    <2>6. w = <<>> =>
            /\ s >= Before(hub) => Placed(hub, base, s, has)
            /\ s < Before(hub) => hub.events[1].from = has + 1
      BY <2>1 DEF w, has
    <2>7. u # <<>> => u[1].seq \in Nat /\ lastId[c] <= u[1].seq
      <3>1. SUFFICES ASSUME u # <<>> PROVE u[1].seq \in Nat /\ lastId[c] <= u[1].seq
        OBVIOUS
      <3>2. u[1] \in Event
        BY <1>7, <3>1
      <3>3. u[1].seq \in Nat /\ s < u[1].seq
        BY <1>7, <3>1, <3>2 DEF Event
      <3> QED BY <1>2, <2>1, <3>3
    <2>8. /\ Before(hub) \in Nat /\ hub.seq >= Before(hub) /\ hub.seq >= Before(g)
          /\ Before(g) \in Nat
      <3>1. Before(hub) \in Nat /\ hub.seq >= Before(hub)
        BY <1>2, PlacedAtEnd, WindowFacts
      <3>2. /\ Before(g) \in Nat /\ Len(g.events) \in Nat /\ Before(g) + Len(g.events) = g.seq
            /\ (Before(g) > 0 => Len(g.events) = Retain)
        BY <1>2, <1>3, WindowFacts
      <3>3. hub.seq >= Before(g)
        <4>1. CASE Before(g) = 0
          BY <1>2, <4>1
        <4>2. CASE Before(g) > 0
          <5>1. Before(g) + Retain <= hub.seq + 1
            BY <1>2, <1>4, <3>2, <4>2
          <5> QED BY <1>2, <3>2, <5>1, RetainsTwo
        <4> QED BY <3>2, <4>1, <4>2
      <3> QED BY <3>1, <3>2, <3>3
    <2>9. w = <<>> /\ u # <<>> /\ ~cut'[c] => u[1].from = has + 1
      <3>1. SUFFICES ASSUME w = <<>>, u # <<>>, ~cut'[c] PROVE u[1].from = has + 1
        OBVIOUS
      <3>2. CASE v # <<>>
        <4>1. u[1] = v[1]
          BY <1>10, <1>16, <3>1, <3>2
        <4>2. CASE s >= Before(hub)
          <5>1. has = Covered(hub, base, s)
            BY <2>6, <3>1, <4>2 DEF Placed
          <5> QED BY <1>8, <3>2, <4>1, <4>2, <5>1
        <4>3. CASE s < Before(hub)
          BY <1>8, <2>6, <3>1, <3>2, <4>1, <4>3
        <4> QED BY <2>8, <4>2, <4>3
      <3>3. CASE v = <<>>
        <4>1. s = hub.seq /\ s >= Before(hub) /\ s >= Before(g)
          BY <1>8, <2>8, <3>3
        <4>2. Placed(g, base, s, has)
          BY <1>2, <1>3, <2>2, <2>6, <3>1, <4>1 DEF Grows
        <4>3. has = Covered(g, base, s)
          BY <4>1, <4>2 DEF Placed
        <4> QED BY <1>7, <3>1, <4>1, <4>3
      <3> QED BY <3>2, <3>3
    <2>10. w = <<>> /\ u = <<>> => Placed(g, base, g.seq, has)
      <3>1. SUFFICES ASSUME w = <<>>, u = <<>> PROVE Placed(g, base, g.seq, has)
        OBVIOUS
      <3>2. s = g.seq /\ s = hub.seq /\ s >= Before(hub)
        BY <1>2, <1>4, <1>7, <2>8, <3>1
      <3> QED BY <1>2, <1>3, <2>2, <2>6, <3>1, <3>2 DEF Grows
    <2>11. ~cut'[c] => ~cut[c]
      BY <1>10
    <2>12. /\ w \o u = <<>> => Placed(g, base, g.seq, has)
           /\ w \o u # <<>> => lastId[c] <= (w \o u)[1].seq
           /\ w \o u # <<>> /\ ~cut'[c] /\ (w \o u)[1].kind # "reset"
                => (w \o u)[1].from = has + 1
      BY <1>15, <2>5, <2>7, <2>9, <2>10, <2>11
    <2>13. Larger(known[c], base)' = has
      BY <1>1 DEF has, Larger
    <2> QED BY <1>1, <1>9, <2>3, <2>4, <2>12, <2>13 DEF ClientInv, g
  <1>19. Safe(c)'
    <2>1. Chain(written[c], hub, base, conn[c].cursor)'
      BY <1>1, <1>9, <1>14 DEF g
    <2> QED BY <1>17, <1>18, <2>1 DEF Safe
  <1> QED BY <1>1, <1>3, <1>11, <1>12, <1>19 DEF StreamInv, g

LEMMA NextCallKeeps ==
    ASSUME StreamInv, NEW c \in Client, NextCall(c)
    PROVE  StreamInv'
  <1> DEFINE s == conn[c].cursor
  <1>1. /\ conn[c].pc = "loop" /\ Read(c, s)
        /\ UNCHANGED <<lastId, known, sent, lastDone, base, old, burst>>
    BY DEF NextCall
  <1>2. /\ HubTypeOK /\ Window(hub, base, sent) /\ sent \in Nat /\ base \in Nat
        /\ hub.seq \in Nat /\ Unflushed(hub) \in {0, 1} /\ s \in Nat
        /\ ReaderInv(c) /\ Chain(written[c], hub, base, s)
        /\ c \notin old => ClientInv(c)
        /\ Before(hub) \in Nat
    BY InvFacts, WindowFacts DEF StreamInv, Safe
  <1>3. s <= hub.seq
    BY <1>1, <1>2 DEF ReaderInv
  <1>4. s >= Before(hub)
    <2>1. hub.seq <= hub.seq + Unflushed(hub) /\ conn[c].pc # "closed"
      BY <1>1, <1>2
    <2> QED BY <1>2, <2>1, InWindow
  <1>5. known' \in [Client -> Nat] /\ known' = known
    BY <1>1, <1>2 DEF HubTypeOK
  <1>6. c \notin old => lastId[c] <= s
    BY <1>1, <1>2 DEF ClientInv
  <1>7. c \notin old /\ written[c] = <<>> => Placed(hub, base, s, Larger(known'[c], base))
    BY <1>1, <1>2 DEF ClientInv, Larger
  <1>8. ~(s < Before(hub))
    BY <1>2, <1>4
  <1>9. conn[c].pc # "closed"
    BY <1>1
  <1> HIDE DEF s
  <1>10. written[c] # <<>> => s = conn[c].cursor
    BY DEF s
  <1> QED BY <1>1, <1>2, <1>3, <1>5, <1>6, <1>7, <1>8, <1>9, <1>10, ReadKeeps

\* Where a client that comes for the first time begins: after the last done event
\* that is retained, or with the window.
LEMMA TurnCursorFacts ==
    ASSUME StreamInv
    PROVE  /\ TurnCursor \in Nat /\ TurnCursor <= hub.seq
           /\ TurnCursor >= Before(hub) =>
                Placed(hub, base, TurnCursor,
                       IF hub.events = <<>> THEN base
                       ELSE Larger(lastDone, hub.events[1].from - 1))
           /\ TurnCursor < Before(hub) =>
                hub.events[1].from = Larger(lastDone, hub.events[1].from - 1) + 1
           /\ hub.events # <<>> =>
                /\ Larger(lastDone, hub.events[1].from - 1) \in Nat
                /\ Larger(lastDone, hub.events[1].from - 1) >= base
  <1> DEFINE N == Len(hub.events)
             first == hub.events[1].from - 1
             x == Larger(lastDone, first)
  <1>1. /\ Window(hub, base, sent) /\ LastDone(hub, base, lastDone)
        /\ sent \in Nat /\ base \in Nat /\ lastDone \in Nat
    BY DEF StreamInv, HubTypeOK
  <1>2. /\ N \in Nat /\ hub.seq \in Nat /\ Before(hub) \in Nat /\ Before(hub) + N = hub.seq
        /\ DOMAIN hub.events = 1..N /\ (hub.events = <<>> <=> N = 0)
        /\ \A i \in 1..N : hub.events[i] \in Event
        /\ Before(hub) > 0 => N = Retain
    BY <1>1, WindowFacts
  <1>3. \A i \in 1..N :
          /\ hub.events[i].seq = Before(hub) + i
          /\ base < hub.events[i].from /\ hub.events[i].from <= hub.events[i].to
          /\ \A j \in 1..N : i < j => hub.events[i].to < hub.events[j].from
          /\ hub.events[i].to \in Nat /\ hub.events[i].from \in Nat
    BY <1>1, <1>2 DEF Window, Event
  <1>4. \A i \in 1..N : Placed(hub, base, hub.events[i].seq, hub.events[i].to)
    BY <1>1, EventPlaced
  <1> HIDE DEF N
  <1>5. CASE N = 0
    <2>1. Dones = {} /\ TurnCursor = 0 /\ hub.events = <<>> /\ Before(hub) = 0 /\ hub.seq = 0
      BY <1>2, <1>5, RetainsTwo DEF Dones, TurnCursor
    <2>2. EndOf(hub, base) = base
      BY <2>1 DEF EndOf
    <2>3. Placed(hub, base, 0, base)
      BY <1>1, <2>1, <2>2, PlacedAtEnd
    <2> QED BY <2>1, <2>3
  <1>6. CASE N > 0
    <2>1. 1 \in 1..N /\ hub.events # <<>> /\ hub.seq # 0
      BY <1>2, <1>6
    <2>2. first \in Nat /\ first >= base /\ hub.events[1].from = first + 1
      BY <1>1, <1>3, <2>1
    <2> HIDE DEF first
    <2>3. x \in Nat /\ x >= base /\ x >= first
      BY <1>1, <2>2 DEF Larger
    <2>4. CASE Dones = {}
      <3>1. lastDone <= first /\ x = first
        <4>1. lastDone <= hub.events[1].from - 1
          BY <1>1, <2>1, <2>4 DEF LastDone, Dones
        <4> QED BY <1>1, <2>2, <4>1 DEF Larger, first
      <3>2. TurnCursor = 0 /\ 0 <= hub.seq
        BY <1>2, <2>4 DEF TurnCursor
      <3>3. TurnCursor >= Before(hub) => Placed(hub, base, TurnCursor, x)
        <4>1. SUFFICES ASSUME Before(hub) = 0 PROVE Placed(hub, base, 0, x)
          BY <1>2, <3>2
        <4>2. Covered(hub, base, 0) = first
          BY <2>1, <4>1 DEF Covered, first
        <4> QED BY <3>1, <3>2, <4>1, <4>2 DEF Placed
      <3>4. hub.events[1].from = x + 1
        BY <2>2, <3>1
      <3> QED BY <2>1, <2>3, <3>2, <3>3, <3>4 DEF first
    <2>5. CASE Dones # {}
      <3>1. PICK m \in Dones : hub.events[m].to = lastDone /\ \A i \in Dones : i <= m
        BY <1>1, <2>5 DEF LastDone, Dones
      <3>2. m \in 1..N /\ \A i \in Dones : i \in 1..N
        BY <1>2 DEF Dones
      <3>3. Max(Dones) = m
        <4>1. \A i \in Dones : (\A j \in Dones : i >= j) => i = m
          BY <3>1, <3>2
        <4>2. m \in Dones /\ \A j \in Dones : m >= j
          BY <3>1, <3>2
        <4> QED BY <4>1, <4>2 DEF Max
      <3>4. TurnCursor = hub.events[m].seq /\ TurnCursor = Before(hub) + m
        BY <1>3, <2>5, <3>2, <3>3 DEF TurnCursor
      <3>5. TurnCursor \in Nat /\ TurnCursor <= hub.seq /\ ~(TurnCursor < Before(hub))
        BY <1>2, <3>2, <3>4
      <3>6. x = lastDone
        <4>1. hub.events[1].from <= hub.events[m].to
          <5>1. m = 1 \/ 1 < m
            BY <3>2
          <5>2. /\ hub.events[1].from <= hub.events[1].to
                /\ hub.events[m].from <= hub.events[m].to
                /\ 1 < m => hub.events[1].to < hub.events[m].from
                /\ hub.events[1].from \in Nat /\ hub.events[1].to \in Nat
                /\ hub.events[m].from \in Nat /\ hub.events[m].to \in Nat
            BY <1>3, <2>1, <3>2
          <5> QED BY <5>1, <5>2
        <4> QED BY <1>1, <2>2, <3>1, <4>1 DEF Larger
      <3>7. Placed(hub, base, TurnCursor, x)
        BY <1>4, <3>1, <3>2, <3>4, <3>6
      <3> QED BY <2>1, <2>3, <3>5, <3>7 DEF first
    <2> QED BY <2>4, <2>5
  <1> QED BY <1>2, <1>5, <1>6

LEMMA ConnectKeeps ==
    ASSUME StreamInv, NEW c \in Client, Connect(c)
    PROVE  StreamInv'
  <1> DEFINE s == IF lastId[c] > 0 THEN lastId[c] ELSE TurnCursor
             x == IF hub.events = <<>> THEN base
                  ELSE Larger(lastDone, hub.events[1].from - 1)
             y == IF lastId[c] > 0 THEN known[c] ELSE x
  <1>1. /\ conn[c].pc = "closed" /\ ~(lastId[c] > 0 /\ Stale(lastId[c]))
        /\ Read(c, s) /\ known' = [known EXCEPT ![c] = y]
        /\ UNCHANGED <<lastId, sent, lastDone, base, old, burst>>
    BY DEF Connect
  <1>2. /\ HubTypeOK /\ Window(hub, base, sent) /\ sent \in Nat /\ base \in Nat
        /\ hub.seq \in Nat /\ lastId[c] \in Nat /\ known[c] \in Nat
        /\ ReaderInv(c) /\ (c \notin old => ClientInv(c))
        /\ Before(hub) \in Nat
    BY InvFacts, WindowFacts DEF StreamInv, Safe
  <1>3. written[c] = <<>>
    BY <1>1, <1>2 DEF ReaderInv
  <1>4. x \in Nat /\ x >= base /\ (lastId[c] = 0 => y = x)
    BY <1>2, TurnCursorFacts
  <1>5. lastId[c] > 0 => s = lastId[c] /\ y = known[c] /\ ~Stale(lastId[c])
    BY <1>1
  <1>6. lastId[c] = 0 => s = TurnCursor
    OBVIOUS
  <1>7. y \in Nat
    BY <1>2, <1>4, <1>5
  <1>8. Larger(x, base) = x
    BY <1>2, <1>4 DEF Larger
  <1>9. s < Before(hub) /\ lastId[c] = 0 => hub.events[1].from = x + 1
    <2>1. SUFFICES ASSUME s < Before(hub), lastId[c] = 0 PROVE hub.events[1].from = x + 1
      OBVIOUS
    <2>2. hub.events # <<>>
      <3>1. s \in Nat
        BY <1>6, <2>1, TurnCursorFacts
      <3>2. Before(hub) > 0
        BY <1>2, <2>1, <3>1
      <3> QED BY <1>2, <3>2, WindowFacts, RetainsTwo
    <2> QED BY <1>6, <2>1, <2>2, TurnCursorFacts
  <1>10. s >= Before(hub) /\ lastId[c] = 0 => Placed(hub, base, s, x)
    BY <1>6, TurnCursorFacts
  <1> HIDE DEF x, y, s
  <1>11. known' \in [Client -> Nat] /\ known'[c] = y /\ \A d \in Client \ {c} : known'[d] = known[d]
    BY <1>1, <1>2, <1>7 DEF HubTypeOK
  <1>12. s \in Nat /\ s <= hub.seq
    <2>1. CASE lastId[c] > 0
      BY <1>2, <1>5, <2>1 DEF Stale
    <2>2. CASE lastId[c] = 0
      BY <1>6, <2>2, TurnCursorFacts
    <2> QED BY <1>2, <2>1, <2>2
  <1>13. lastId[c] > 0 => s >= Before(hub) /\ ~(s < Before(hub))
    <2>1. SUFFICES ASSUME lastId[c] > 0 PROVE s >= Before(hub)
      BY <1>2, <1>12
    <2>2. hub.events # <<>> => s >= hub.events[1].seq - 1
      <3>1. SUFFICES ASSUME hub.events # <<>> PROVE s >= hub.events[1].seq - 1
        OBVIOUS
      <3>2. hub.events[1].seq \in Nat
        BY <1>2, <3>1, WindowFacts DEF Event
      <3>3. ~(lastId[c] < hub.events[1].seq - 1)
        BY <1>5, <2>1, <3>1 DEF Stale
      <3> QED BY <1>2, <1>5, <2>1, <3>2, <3>3
    <2>3. CASE hub.events = <<>>
      <3>1. Before(hub) = 0
        BY <1>2, <2>3, WindowFacts, RetainsTwo
      <3> QED BY <1>12, <3>1
    <2>4. CASE hub.events # <<>>
      <3>1. 1 \in DOMAIN hub.events
        BY <1>2, <2>4, WindowFacts
      <3>2. hub.events[1].seq = Before(hub) + 1
        BY <1>2, <3>1 DEF Window
      <3> QED BY <1>2, <1>12, <2>2, <2>4, <3>2
    <2> QED BY <2>3, <2>4
  <1>14. c \notin old => lastId[c] <= s
    <2>1. lastId[c] = 0 => lastId[c] <= s
      BY <1>12
    <2>2. lastId[c] > 0 => lastId[c] <= s
      BY <1>2, <1>5
    <2> QED BY <1>2, <2>1, <2>2
  <1>15. c \notin old =>
           /\ s >= Before(hub) => Placed(hub, base, s, Larger(known'[c], base))
           /\ s < Before(hub) => hub.events[1].from = Larger(known'[c], base) + 1
    <2>1. CASE lastId[c] = 0
      BY <1>4, <1>8, <1>9, <1>10, <1>11, <2>1
    <2>2. CASE lastId[c] > 0
      <3>1. SUFFICES ASSUME c \notin old PROVE Placed(hub, base, s, Larger(known'[c], base))
        BY <1>13, <2>2
      <3>2. known[c] >= base /\ Placed(hub, base, lastId[c], known[c])
        BY <1>2, <2>2, <3>1 DEF ClientInv
      <3>3. Larger(known[c], base) = known[c]
        BY <1>2, <3>2 DEF Larger
      <3> QED BY <1>5, <1>11, <2>2, <3>2, <3>3
    <2> QED BY <1>2, <2>1, <2>2
  <1>16. Chain(written[c], hub, base, s)
    BY <1>3 DEF Chain
  <1>17. lastId[c] > 0 => known'[c] = known[c]
    BY <1>5, <1>11
  <1> QED BY <1>1, <1>3, <1>11, <1>12, <1>14, <1>15, <1>16, <1>17, ReadKeeps

-----------------------------------------------------------------------------
(* The theorems.                                                            *)

LEMMA HubInitSafe ==
    ASSUME HubInit
    PROVE  StreamInv
  <1>1. /\ hub = EmptyHub /\ base = 0 /\ sent = 0 /\ lastDone = 0 /\ burst = 0 /\ old = {}
        /\ conn = [c \in Client |-> Closed] /\ written = [c \in Client |-> <<>>]
        /\ lastId = [c \in Client |-> 0] /\ known = [c \in Client |-> 0]
        /\ cut = [c \in Client |-> FALSE]
    BY DEF HubInit
  <1>2. Window(hub, base, sent) /\ LastDone(hub, base, lastDone)
    BY <1>1, EmptyWindow
  <1>3. HubTypeOK
    <2>1. MaxBurst \in Nat
      BY HubAssumption
    <2>2. conn \in [Client -> [pc : {"closed", "loop", "waiting", "woken"}, cursor : Nat]]
      BY <1>1 DEF Closed
    <2>3. written \in [Client -> Seq(Event)]
      BY <1>1
    <2> QED BY <1>1, <2>1, <2>2, <2>3 DEF HubTypeOK
  <1>4. ASSUME NEW c \in Client PROVE Safe(c)
    <2>1. conn[c].pc = "closed" /\ written[c] = <<>> /\ cut[c] = FALSE /\ ~(lastId[c] > 0)
      BY <1>1 DEF Closed
    <2> QED BY <2>1 DEF Safe, ReaderInv, Chain, ClientInv
  <1> QED BY <1>2, <1>3, <1>4 DEF StreamInv

LEMMA StreamStuttering ==
    ASSUME StreamInv, UNCHANGED hubVars
    PROVE  StreamInv'
  <1>1. /\ HubTypeOK' /\ Window(hub, base, sent)' /\ LastDone(hub, base, lastDone)'
    BY DEF StreamInv, HubTypeOK, hubVars
  <1>2. ASSUME NEW c \in Client PROVE Safe(c)'
    <2>1. Safe(c)
      BY DEF StreamInv
    <2> QED BY <2>1 DEF hubVars, Safe, ReaderInv, ClientInv, Lag, Larger
  <1> QED BY <1>1, <1>2 DEF StreamInv

\* The window is in order and complete, no reader falls out of it, and what a client
\* has, what is written to it and where it reads on always agree.
THEOREM StreamInvariant == HubSpec => []StreamInv
  <1>1. HubInit => StreamInv
    BY HubInitSafe
  <1>2. StreamInv /\ [HubNext]_hubVars => StreamInv'
    <2> SUFFICES ASSUME StreamInv, [HubNext]_hubVars PROVE StreamInv'
      OBVIOUS
    <2>1. CASE \E p \in Part, long \in BOOLEAN : EmitDelta(p, long)
      BY <2>1, EmitDeltaKeeps
    <2>2. CASE \E kind \in {"part", "done"} : Emit(kind)
      BY <2>2, EmitKeeps
    <2>3. CASE FlushTimer
      BY <2>3, FlushTimerKeeps
    <2>4. ASSUME NEW c \in Client,
                 \/ Connect(c) \/ ConnectStale(c) \/ NextCall(c)
                 \/ Resumed(c) \/ Receive(c) \/ Disconnect(c)
          PROVE  StreamInv'
      <3>1. CASE Connect(c)
        BY <3>1, ConnectKeeps
      <3>2. CASE ConnectStale(c)
        BY <3>2, ConnectStaleKeeps
      <3>3. CASE NextCall(c)
        BY <3>3, NextCallKeeps
      <3>4. CASE Resumed(c)
        BY <3>4, ResumedKeeps
      <3>5. CASE Receive(c)
        BY <3>5, ReceiveKeeps
      <3>6. CASE Disconnect(c)
        BY <3>6, DisconnectKeeps
      <3> QED BY <2>4, <3>1, <3>2, <3>3, <3>4, <3>5, <3>6
    <2>5. CASE HubLost
      BY <2>5, HubLostKeeps
    <2>6. CASE UNCHANGED hubVars
      BY <2>6, StreamStuttering
    <2> QED BY <2>1, <2>2, <2>3, <2>4, <2>5, <2>6 DEF HubNext
  <1> QED BY <1>1, <1>2, PTL DEF HubSpec

\* What comes next to a reader continues what its client has: nothing is left out and
\* nothing comes twice, unless it is told so.
THEOREM StreamIsContinuous == HubSpec => []NoSilentGap
  <1>1. StreamInv => NoSilentGap
    <2> SUFFICES ASSUME StreamInv, NEW c \in Client \ old, conn[c].pc # "closed", ~cut[c]
                 PROVE  \A i \in DOMAIN Upcoming(c) :
                          Upcoming(c)[i].kind # "reset" =>
                            Upcoming(c)[i].from
                              = 1 + IF i = 1 THEN Larger(known[c], base)
                                    ELSE Upcoming(c)[i - 1].to
      BY DEF NoSilentGap
    <2> DEFINE g == Flush(hub, sent)
               w == written[c]
               s == conn[c].cursor
               has == Larger(known[c], base)
    <2>1. /\ Window(hub, base, sent) /\ sent \in Nat /\ base \in Nat /\ known[c] \in Nat
          /\ hub.seq \in Nat /\ Unflushed(hub) \in {0, 1} /\ s \in Nat /\ w \in Seq(Event)
          /\ ReaderInv(c) /\ Chain(w, hub, base, s) /\ ClientInv(c)
      BY InvFacts DEF Safe
    <2>2. /\ Window(g, base, sent) /\ g.seq = hub.seq + Unflushed(hub) /\ Grows(hub, g, base)
      BY <2>1, FlushFacts
    <2>3. g.seq \in Nat /\ g.seq <= hub.seq + Unflushed(hub) /\ s <= g.seq
      <3>1. s <= hub.seq
        BY <2>1 DEF ReaderInv
      <3> QED BY <2>1, <2>2, <3>1
    <2> HIDE DEF g
    <2>4. s >= Before(g)
      BY <2>1, <2>2, <2>3, InWindow
    <2>5. PICK u : u = Since(g, s)
      OBVIOUS
    <2>6. Chain(w, g, base, s)
      BY <2>1, <2>2, ChainGrows
    <2>7. /\ u \in Seq(Event) /\ (u = <<>> <=> s = g.seq)
          /\ Chain(u, g, base, g.seq)
          /\ u # <<>> => /\ u[1].kind # "reset" /\ s < u[1].seq
                         /\ s >= Before(g) => u[1].from = Covered(g, base, s) + 1
      <3>1. s <= hub.seq /\ g = Flush(hub, sent)
        BY <2>1 DEF ReaderInv, g
      <3> QED BY <2>1, <2>5, <3>1, ReturnedFacts
    <2>8. Chain(w \o u, g, base, g.seq) /\ w \o u \in Seq(Event)
      BY <2>1, <2>4, <2>6, <2>7, ChainExtends
    <2>9. /\ w \o u = <<>> <=> w = <<>> /\ u = <<>>
          /\ w # <<>> => (w \o u)[1] = w[1]
          /\ w = <<>> => w \o u = u
      BY <2>1, <2>7, FirstWritten
    <2>10. has \in Nat
      BY <2>1 DEF Larger
    <2>11. w = <<>> => Placed(g, base, s, has)
      BY <2>1, <2>2, <2>10 DEF ClientInv, Grows
    <2>12. w \o u # <<>> /\ (w \o u)[1].kind # "reset" => (w \o u)[1].from = 1 + has
      <3>1. CASE w = <<>>
        <4>1. has = Covered(g, base, s)
          BY <2>4, <2>11, <3>1 DEF Placed
        <4> QED BY <2>4, <2>7, <2>9, <2>10, <3>1, <4>1
      <3>2. CASE w # <<>>
        <4>1. w[1].kind # "reset" => w[1].from = has + 1
          BY <2>1, <3>2 DEF ClientInv
        <4> QED BY <2>9, <2>10, <3>2, <4>1
      <3> QED BY <3>1, <3>2
    <2> DEFINE v == w \o u
    <2>13. Upcoming(c) = v
      BY <2>5 DEF Upcoming, g
    <2>14. DOMAIN v = 1..Len(v) /\ Len(v) \in Nat /\ \A i \in DOMAIN v : v[i] \in Event
      BY <2>8
    <2>15. \A i \in DOMAIN v : i > 1 => v[i].from = v[i - 1].to + 1
      BY <2>8 DEF Chain
    <2>16. ASSUME NEW i \in DOMAIN v, v[i].kind # "reset"
           PROVE  v[i].from = 1 + IF i = 1 THEN has ELSE v[i - 1].to
      <3>1. CASE i = 1
        <4>1. v # <<>>
          BY <2>14
        <4> QED BY <2>12, <2>16, <3>1, <4>1
      <3>2. CASE i # 1
        <4>1. i > 1 /\ i - 1 \in DOMAIN v
          BY <2>14, <3>2
        <4>2. v[i].from = v[i - 1].to + 1 /\ v[i - 1].to \in Nat
          BY <2>14, <2>15, <4>1 DEF Event
        <4> QED BY <3>2, <4>2
      <3> QED BY <3>1, <3>2
    <2> QED BY <2>13, <2>16
  <1> QED BY <1>1, StreamInvariant, PTL

\* A reader is told to start over only when what its client needs next is gone.
THEOREM ResetsAreNeeded == HubSpec => ResetOnlyWhenMissed
  <1>1. StreamInv /\ [HubNext]_hubVars
        => [\A c \in Client \ old :
              ConnectStale(c) => hub.events # <<>> /\ known[c] + 1 < hub.events[1].from]_hubVars
    <2> SUFFICES ASSUME StreamInv, NEW c \in Client \ old, ConnectStale(c)
                 PROVE  hub.events # <<>> /\ known[c] + 1 < hub.events[1].from
      OBVIOUS
    <2>1. /\ lastId[c] > 0 /\ Stale(lastId[c]) /\ lastId[c] \in Nat /\ known[c] \in Nat
          /\ Window(hub, base, sent) /\ sent \in Nat /\ base \in Nat /\ ClientInv(c)
          /\ hub.seq \in Nat
      BY InvFacts DEF ConnectStale, Safe
    <2>2. Placed(hub, base, lastId[c], known[c])
      BY <2>1 DEF ClientInv
    <2>3. lastId[c] <= hub.seq /\ (lastId[c] < Before(hub) => known[c] + 1 < hub.events[1].from)
      BY <2>2 DEF Placed
    <2>4. hub.events # <<>> /\ lastId[c] < hub.events[1].seq - 1
      BY <2>1, <2>3 DEF Stale
    <2>5. 1 \in DOMAIN hub.events /\ Before(hub) \in Nat
      <3>1. /\ Before(hub) \in Nat /\ DOMAIN hub.events = 1..Len(hub.events)
            /\ Len(hub.events) \in Nat /\ (hub.events = <<>> <=> Len(hub.events) = 0)
        BY <2>1, WindowFacts
      <3> QED BY <2>4, <3>1
    <2>6. hub.events[1].seq = Before(hub) + 1
      BY <2>1, <2>5 DEF Window
    <2>7. lastId[c] < Before(hub)
      BY <2>1, <2>4, <2>5, <2>6
    <2> QED BY <2>3, <2>4, <2>7
  <1> QED BY <1>1, StreamInvariant, PTL DEF HubSpec, ResetOnlyWhenMissed
=============================================================================
