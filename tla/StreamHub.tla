------------------------------ MODULE StreamHub ------------------------------
(***************************************************************************)
(* The event stream of one agent (runtime/stream-hub.ts), the SSE          *)
(* connections that read it (handleStream in runtime/server.ts) and the    *)
(* clients that reconnect (web/src/domain/task-stream.ts).                 *)
(*                                                                         *)
(* What is emitted is numbered 1, 2, ... (sent); an event of the hub stands*)
(* for the interval from..to of it, because deltas of one part aggregate.  *)
(* JavaScript runs each of the actions below without interruption.  A      *)
(* reader that is awake is a microtask, so it runs before the next task:   *)
(* at most MaxBurst things are emitted until then.                         *)
(***************************************************************************)
EXTENDS Integers, Sequences, FiniteSetsExt

CONSTANTS
    Part,        \* parts a delta may belong to
    Client,
    Retain,      \* events the hub retains
    MaxBurst,    \* emissions between two turns of the readers
    MaxSent,     \* bound: emissions
    MaxBreaks,   \* bound: broken connections
    MaxRestarts  \* bound: restarts of the runtime

ASSUME HubAssumption ==
    /\ Retain \in Nat
    /\ MaxBurst \in Nat \ {0} /\ MaxBurst < Retain
    /\ {MaxSent, MaxBreaks, MaxRestarts} \subseteq Nat

VARIABLES
    hub,      \* events, seq and pendingDelta
    conn,     \* the server's side of each client's connection: where next() is
    written,  \* events written to the connection and not received yet
    lastId,   \* the client's Last-Event-ID
    known,    \* history: the client has all it needs up to here
    sent,     \* history: emissions so far
    lastDone, \* history: the emission that was the last done
    base,     \* history: emissions before the runtime started
    cut,      \* history: the event a client needs next fell out as it connected
    old,      \* history: the clients whose lastId is from before a restart
    burst, breaks, restarts

hubVars ==
    <<hub, conn, written, lastId, known, sent, lastDone, base, cut, old, burst, breaks,
      restarts>>

Closed == [pc |-> "closed", cursor |-> 0]
EmptyHub == [events |-> <<>>, seq |-> 0, pending |-> <<>>]
Larger(a, b) == IF a > b THEN a ELSE b

HubInit ==
    /\ hub = EmptyHub
    /\ conn = [c \in Client |-> Closed] /\ written = [c \in Client |-> <<>>]
    /\ lastId = [c \in Client |-> 0] /\ known = [c \in Client |-> 0]
    /\ cut = [c \in Client |-> FALSE] /\ old = {}
    /\ sent = 0 /\ lastDone = 0 /\ base = 0 /\ burst = 0 /\ breaks = 0 /\ restarts = 0
-----------------------------------------------------------------------------
(* The hub *)

Trim(s) == IF Len(s) > Retain THEN SubSeq(s, Len(s) - Retain + 1, Len(s)) ELSE s

Push(h, from, to, kind) ==
    [events |-> Trim(Append(h.events, [seq |-> h.seq + 1, from |-> from, to |-> to,
                                       kind |-> kind])),
     seq |-> h.seq + 1, pending |-> h.pending]

\* flushDeltaBatch: the aggregated deltas become an event.
Flush(h, n) ==
    IF h.pending = <<>> THEN h
    ELSE Push([h EXCEPT !.pending = <<>>], h.pending[1].from, n, "delta")

\* eventsSince: seq grows along the window, so what is after a cursor is its end.
Since(h, cursor) ==
    LET later == {i \in DOMAIN h.events : h.events[i].seq > cursor}
    IN IF later = {} THEN <<>> ELSE SubSeq(h.events, Min(later), Len(h.events))

Awake(cs) == [c \in Client |-> IF cs[c].pc = "waiting" THEN [cs[c] EXCEPT !.pc = "woken"]
                               ELSE cs[c]]

\* Whoever waits is woken when an event is pushed.
Wake(h, cs) == IF h.seq # hub.seq THEN Awake(cs) ELSE cs

Runnable == \E c \in Client : conn[c].pc \in {"loop", "woken"}

Emission ==
    /\ sent < MaxSent /\ sent' = sent + 1
    /\ ~Runnable \/ burst < MaxBurst
    /\ burst' = (IF Runnable THEN burst ELSE 0) + 1
    /\ conn' = Wake(hub', conn)
    /\ UNCHANGED <<written, lastId, known, base, cut, old, breaks, restarts>>

SamePart(p) == hub.pending # <<>> /\ hub.pending[1].part = p

\* Deltas of one part aggregate until the batch is long, the part changes, another
\* event comes or the timer fires.
EmitDelta(p, long) ==
    /\ LET h == IF SamePart(p) THEN hub
                ELSE [Flush(hub, sent) EXCEPT
                        !.pending = <<[part |-> p, from |-> sent + 1]>>]
       IN hub' = IF long THEN Flush(h, sent + 1) ELSE h
    /\ Emission /\ UNCHANGED lastDone

\* Bug: the pending deltas are not flushed before another event.
EmitOutOfOrder(kind) ==
    /\ hub' = Push(hub, sent + 1, sent + 1, kind)
    /\ Emission
    /\ lastDone' = IF kind = "done" THEN sent + 1 ELSE lastDone

Emit(kind) ==
    /\ hub' = Push(Flush(hub, sent), sent + 1, sent + 1, kind)
    /\ Emission
    /\ lastDone' = IF kind = "done" THEN sent + 1 ELSE lastDone

\* Bug: the timer's flush wakes nobody.
FlushTimerQuiet ==
    /\ hub.pending # <<>> /\ hub' = Flush(hub, sent)
    /\ UNCHANGED <<conn, written, lastId, known, sent, lastDone, base, cut, old, burst, breaks,
                   restarts>>

\* The timer of the pending batch.
FlushTimer ==
    /\ hub.pending # <<>> /\ hub' = Flush(hub, sent)
    /\ conn' = Wake(hub', conn)
    /\ UNCHANGED <<written, lastId, known, sent, lastDone, base, cut, old, burst, breaks,
                   restarts>>
-----------------------------------------------------------------------------
(* A connection *)

\* Bug: the last event before the window counts as missed.
StaleTooEarly(after) ==
    \/ after > hub.seq
    \/ hub.events # <<>> /\ after < hub.events[1].seq

\* subscribe: is the cursor outside the retained stream?
Stale(after) ==
    \/ after > hub.seq
    \/ hub.events # <<>> /\ after < hub.events[1].seq - 1

Dones == {i \in DOMAIN hub.events : hub.events[i].kind = "done"}

\* subscribeCurrentTurn: after the last done retained, or everything retained.
TurnCursor == IF Dones = {} THEN 0 ELSE hub.events[Max(Dones)].seq

LastTo == IF hub.events = <<>> THEN base ELSE hub.events[Len(hub.events)].to

\* A client comes back whose Last-Event-ID is outside the window: next() returns
\* one reset event and goes on from here.
ConnectStale(c) ==
    /\ conn[c].pc = "closed" /\ lastId[c] > 0 /\ Stale(lastId[c])
    /\ conn' = [conn EXCEPT ![c] = [pc |-> "loop", cursor |-> hub.seq]]
    /\ written' = [written EXCEPT ![c] = <<[seq |-> hub.seq, from |-> 0, to |-> LastTo,
                                      kind |-> "reset"]>>]
    /\ UNCHANGED <<hub, lastId, known, sent, lastDone, base, cut, old, burst, breaks,
                   restarts>>

\* The batch is written to the connection and the loop calls next() again.
Wrote(c, cs, batch) ==
    /\ conn' = [cs EXCEPT ![c] =
                  [pc |-> "loop",
                   cursor |-> IF batch = <<>> THEN @.cursor ELSE batch[Len(batch)].seq]]
    /\ written' = [written EXCEPT ![c] = @ \o batch]

\* next() from a cursor: flush, then either a batch at once or wait.
Read(c, cursor) ==
    /\ hub' = Flush(hub, sent)
    /\ LET batch == Since(hub', cursor)
           before == Since(hub, cursor)
           cs == [Wake(hub', conn) EXCEPT ![c] = [pc |-> "waiting", cursor |-> cursor]] IN
       /\ IF batch = <<>> THEN conn' = cs /\ UNCHANGED written ELSE Wrote(c, cs, batch)
       /\ cut' = [cut EXCEPT ![c] =
                      @ \/ (before # <<>> /\ Head(before) # Head(batch))]

\* A client connects, for the current turn at first and later after its
\* Last-Event-ID; next() is called at once.
Connect(c) ==
    /\ conn[c].pc = "closed" /\ ~(lastId[c] > 0 /\ Stale(lastId[c]))
    /\ Read(c, IF lastId[c] > 0 THEN lastId[c] ELSE TurnCursor)
    /\ known' = [known EXCEPT ![c] =
                   IF lastId[c] > 0 THEN @
                   ELSE IF hub.events = <<>> THEN base
                   ELSE Larger(lastDone, hub.events[1].from - 1)]
    /\ UNCHANGED <<lastId, sent, lastDone, base, old, burst, breaks, restarts>>

NextCall(c) ==
    /\ conn[c].pc = "loop"
    /\ Read(c, conn[c].cursor)
    /\ UNCHANGED <<lastId, known, sent, lastDone, base, old, burst, breaks, restarts>>

\* next() goes on after the wake-up.
Resumed(c) ==
    /\ conn[c].pc = "woken"
    /\ Wrote(c, conn, Since(hub, conn[c].cursor))
    /\ UNCHANGED <<hub, lastId, known, sent, lastDone, base, cut, old, burst, breaks,
                   restarts>>
-----------------------------------------------------------------------------
(* A client *)

\* The client reads an event; its cursor never goes back.
Receive(c) ==
    /\ written[c] # <<>>
    /\ LET e == Head(written[c]) IN
       /\ lastId' = [lastId EXCEPT ![c] = Larger(@, e.seq)]
       /\ known' = [known EXCEPT ![c] = e.to]
       /\ old' = IF e.seq >= lastId[c] THEN old \ {c} ELSE old
    /\ written' = [written EXCEPT ![c] = Tail(@)] /\ cut' = [cut EXCEPT ![c] = FALSE]
    /\ UNCHANGED <<hub, conn, sent, lastDone, base, burst, breaks, restarts>>

\* The connection breaks: what was under way is lost, and stop() wakes everybody.
Disconnect(c) ==
    /\ conn[c].pc # "closed" /\ breaks < MaxBreaks
    /\ breaks' = breaks + 1
    /\ conn' = Awake([conn EXCEPT ![c] = Closed])
    /\ written' = [written EXCEPT ![c] = <<>>] /\ cut' = [cut EXCEPT ![c] = FALSE]
    /\ UNCHANGED <<hub, lastId, known, sent, lastDone, base, old, burst, restarts>>

\* The runtime restarts: the hub was in memory only.
HubLost ==
    /\ restarts < MaxRestarts /\ restarts' = restarts + 1
    /\ hub' = EmptyHub /\ base' = sent /\ lastDone' = sent
    /\ conn' = [c \in Client |-> Closed] /\ written' = [c \in Client |-> <<>>]
    /\ cut' = [c \in Client |-> FALSE] /\ burst' = 0
    /\ old' = {c \in Client : lastId[c] > 0}
    /\ UNCHANGED <<lastId, known, sent, breaks>>
-----------------------------------------------------------------------------
HubNext ==
    \/ \E p \in Part, long \in BOOLEAN : EmitDelta(p, long)
    \/ \E kind \in {"part", "done"} : Emit(kind)
    \/ FlushTimer
    \/ \E c \in Client :
         \/ Connect(c) \/ ConnectStale(c) \/ NextCall(c)
         \/ Resumed(c) \/ Receive(c) \/ Disconnect(c)
    \/ HubLost

HubSpec == HubInit /\ [][HubNext]_hubVars

\* The timer fires, readers run, and what is written arrives.
HubFairness ==
    /\ WF_hubVars(FlushTimer)
    /\ \A c \in Client :
         WF_hubVars(NextCall(c)) /\ WF_hubVars(Resumed(c))
         /\ WF_hubVars(Receive(c))

HubFairSpec == HubSpec /\ HubFairness
-----------------------------------------------------------------------------
\* What a connection has under way and has still to send, the pending deltas last.
Upcoming(c) == written[c] \o Since(Flush(hub, sent), conn[c].cursor)

\* A reader that is not told to start over gets everything in order: what comes
\* next continues what its client has, without a gap and without a repetition,
\* through aggregation, eviction, broken connections and reconnections.  Excepted
\* is what the first next() of a connection itself pushes out of the window, and a
\* cursor from before a restart, which may pass for one of the new stream.
NoSilentGap ==
    \A c \in Client \ old :
      conn[c].pc # "closed" /\ ~cut[c] =>
        LET u == Upcoming(c) IN
        \A i \in DOMAIN u :
          u[i].kind # "reset" =>
            u[i].from = 1 + IF i = 1 THEN Larger(known[c], base) ELSE u[i - 1].to

\* A reader is told to start over only when something its client lacks is gone,
\* or when its cursor is from before a restart.
ResetOnlyWhenMissed ==
    [][\A c \in Client \ old :
         ConnectStale(c) => hub.events # <<>> /\ known[c] + 1 < hub.events[1].from]_hubVars

\* A client that stays connected gets everything, the last aggregated delta too.
CatchesUp ==
    \A c \in Client :
      conn[c].pc # "closed" ~> conn[c].pc = "closed" \/ c \in old
                                 \/ Larger(known[c], base) = sent
=============================================================================
