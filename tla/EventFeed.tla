----------------------------- MODULE EventFeed -------------------------------
(***************************************************************************)
(* How the control panel and the audit log learn what the bot does: the    *)
(* broadcast bus (bus.rs), the task behind /ws/events (api.rs,             *)
(* stream_events), the browser's socket and its handlers                   *)
(* (useEventSocket.ts, App.tsx), its one GET /api/status, and the audit    *)
(* writer (audit.rs).  The armed flag stands for all that is displayed.    *)
(*                                                                         *)
(* The bus keeps its latest Capacity events.  A receiver that falls        *)
(* further behind is told how many it missed and goes on at the oldest     *)
(* event still kept: the stream ends there, the audit writer records it.   *)
(*                                                                         *)
(* A definition named Bug... is a faulty variant of the one that follows   *)
(* it.  Next uses none of them.                                            *)
(***************************************************************************)
EXTENDS Naturals, Sequences, FiniteSets

CONSTANTS
    Capacity,    \* of the bus: 256 in bus.rs
    MaxEvents,   \* bound on the events of one process
    MaxRestarts, \* bound on the restarts of the bot
    MaxMounts,   \* bound on how often the page is loaded
    MaxBreaks    \* bound on the connections the network drops

ASSUME EventFeedAssumption ==
    /\ Capacity \in Nat \ {0}
    /\ MaxEvents \in Nat
    /\ MaxRestarts \in Nat
    /\ MaxMounts \in Nat
    /\ MaxBreaks \in Nat

VARIABLES
    armed,     \* AppState.armed
    toSend,    \* an ArmedState event the control loop has yet to send, or None
    sent,      \* the events sent since the bot started
    conn,      \* the connection: "down", "accepted", "subscribed", "live", "closed"
    next,      \* the event its stream receives next
    wire,      \* frames on their way to the browser
    connected, \* the browser's `connected`
    shown,     \* the browser's `armed`
    told,      \* who set it last: "initial", "status" or "stream"
    status,    \* GET /api/status: "unmounted", "asked", "done", or the answer
               \* on its way
    auditNext, \* the event the audit writer receives next; 0 before it subscribed
    audit,     \* since which event it listens; how many events it wrote, how
               \* many its gap entries admit, how many its failed writes lost
    restarts,  \* how often the bot was restarted
    mounts,    \* how often the page was loaded
    breaks     \* how often the network dropped the connection

server  == <<armed, toSend, sent>>
stream  == <<conn, next, wire, breaks>>
browser == <<connected, shown, told, status, mounts>>
writer  == <<auditNext, audit>>
vars    == <<server, stream, browser, writer, restarts>>

None == "none"
ArmedEvents == {"arm", "disarm"}
\* "fire" stands for the other events the audit log keeps, "log" for Log,
\* WalletUpdate and RpcHealth, which it does not.
Events == ArmedEvents \union {"fire", "log"}
Kept == Events \ {"log"}
\* What a snapshot or a status answer says of the flag.
Says(b) == IF b THEN "armed" ELSE "disarmed"
Answers == {Says(b) : b \in BOOLEAN}
Frames == Events \union Answers

TypeOK ==
    /\ armed \in BOOLEAN
    /\ toSend \in ArmedEvents \union {None}
    /\ sent \in Seq(Events) /\ Len(sent) <= MaxEvents
    /\ conn \in {"down", "accepted", "subscribed", "live", "closed"}
    /\ next \in 1 .. MaxEvents + 1
    /\ wire \in Seq(Frames)
    /\ connected \in BOOLEAN
    /\ shown \in BOOLEAN
    /\ told \in {"initial", "status", "stream"}
    /\ status \in {"unmounted", "asked", "done"} \union Answers
    /\ auditNext \in 0 .. MaxEvents + 1
    /\ audit \in [since : 0 .. MaxEvents + 1, written : 0 .. MaxEvents,
                  missed : 0 .. MaxEvents, failed : 0 .. MaxEvents]
    /\ restarts \in 0 .. MaxRestarts
    /\ mounts \in 0 .. MaxMounts
    /\ breaks \in 0 .. MaxBreaks

NothingYet == [since |-> 0, written |-> 0, missed |-> 0, failed |-> 0]

Init ==
    /\ armed = FALSE
    /\ toSend = None
    /\ sent = <<>>
    /\ conn = "down"
    /\ next = 1
    /\ wire = <<>>
    /\ connected = FALSE
    /\ shown = FALSE
    /\ told = "initial"
    /\ status = "unmounted"
    /\ auditNext = 0
    /\ audit = NothingYet
    /\ restarts = 0
    /\ mounts = 0
    /\ breaks = 0

------------------------------------------------------------------------------
(* The bus and those who send.                                             *)

Emit(e) == Len(sent) < MaxEvents /\ sent' = Append(sent, e)

\* How many events a receiver that wants event n has lost.
Lost(n) == IF Len(sent) + 1 - n > Capacity THEN Len(sent) + 1 - n - Capacity ELSE 0

\* The control loop stores the flag, then sends the event; both when it arms
\* and when it disarms, whatever the flag was.
StoreArmed ==
    /\ toSend = None
    /\ Len(sent) < MaxEvents
    /\ armed' \in BOOLEAN
    /\ toSend' = IF armed' THEN "arm" ELSE "disarm"
    /\ UNCHANGED <<sent, stream, browser, writer, restarts>>

SendArmed ==
    /\ toSend # None
    /\ Emit(toSend)
    /\ toSend' = None
    /\ UNCHANGED <<armed, stream, browser, writer, restarts>>

\* Fires, results, logs and health reports, from any task.  One slot is left
\* for the event the control loop owes.
SendOther ==
    /\ toSend # None => Len(sent) + 1 < MaxEvents
    /\ \E e \in Events \ ArmedEvents : Emit(e)
    /\ UNCHANGED <<armed, toSend, stream, browser, writer, restarts>>

\* The process ends and starts again, disarmed, with a new bus.
Restart ==
    /\ restarts < MaxRestarts
    /\ restarts' = restarts + 1
    /\ armed' = FALSE /\ toSend' = None /\ sent' = <<>>
    /\ conn' = IF conn = "down" THEN conn ELSE "closed"
    /\ next' = 1
    /\ status' = IF status = "asked" THEN "done" ELSE status
    /\ auditNext' = 0 /\ audit' = NothingYet
    /\ UNCHANGED <<wire, connected, shown, told, mounts, breaks>>

------------------------------------------------------------------------------
(* /ws/events, the server's side.                                          *)

\* The stream subscribes first, so that what happens while it takes its
\* snapshot is not lost.
Subscribe ==
    /\ conn = "accepted"
    /\ conn' = "subscribed"
    /\ next' = Len(sent) + 1
    /\ UNCHANGED <<server, wire, breaks, browser, writer, restarts>>

Snapshot ==
    /\ conn = "subscribed"
    /\ conn' = "live"
    /\ wire' = Append(wire, Says(armed))
    /\ UNCHANGED <<server, next, breaks, browser, writer, restarts>>

Forward ==
    /\ conn = "live"
    /\ next <= Len(sent)
    /\ Lost(next) = 0
    /\ wire' = Append(wire, sent[next])
    /\ next' = next + 1
    /\ UNCHANGED <<server, conn, breaks, browser, writer, restarts>>

BugStreamLagContinues ==
    /\ conn = "live"
    /\ Lost(next) > 0
    /\ next' = next + Lost(next)
    /\ UNCHANGED <<server, conn, wire, breaks, browser, writer, restarts>>

\* recv() returns an error, which ends the loop and closes the socket.
StreamLags ==
    /\ conn = "live"
    /\ Lost(next) > 0
    /\ conn' = "closed"
    /\ UNCHANGED <<server, next, wire, breaks, browser, writer, restarts>>

------------------------------------------------------------------------------
(* The browser.                                                            *)

\* The page is loaded (again) and asks for the status; its socket follows.
Mount ==
    /\ mounts < MaxMounts
    /\ mounts' = mounts + 1
    /\ conn' = "down" /\ wire' = <<>>
    /\ connected' = FALSE
    /\ shown' = FALSE /\ told' = "initial"
    /\ status' = "asked"
    /\ UNCHANGED <<server, next, breaks, writer, restarts>>

\* A new socket, when the page is loaded and whenever the retry timer runs out.
Connect ==
    /\ conn = "down"
    /\ mounts > 0
    /\ conn' = "accepted"
    /\ connected' = TRUE
    /\ UNCHANGED <<server, next, wire, breaks, shown, told, status, mounts, writer, restarts>>

StatusReads ==
    /\ status = "asked"
    /\ status' = Says(armed)
    /\ UNCHANGED <<server, stream, connected, shown, told, mounts, writer, restarts>>

\* The answer is displayed whenever it arrives.
StatusArrives ==
    /\ status \in Answers
    /\ shown' = (status = "armed")
    /\ told' = "status"
    /\ status' = "done"
    /\ UNCHANGED <<server, stream, connected, mounts, writer, restarts>>

\* handleEvent: a snapshot and an ArmedState set the flag.
Deliver ==
    /\ wire # <<>>
    /\ wire' = Tail(wire)
    /\ IF Head(wire) \in ArmedEvents \union Answers
       THEN shown' = (Head(wire) \in {"arm", "armed"}) /\ told' = "stream"
       ELSE UNCHANGED <<shown, told>>
    /\ UNCHANGED <<server, conn, next, breaks, connected, status, mounts, writer, restarts>>

\* The network drops the connection, and what is on the wire with it.
ConnectionBreaks ==
    /\ breaks < MaxBreaks
    /\ conn \in {"accepted", "subscribed", "live"}
    /\ conn' = "closed"
    /\ wire' = <<>>
    /\ breaks' = breaks + 1
    /\ UNCHANGED <<server, next, browser, writer, restarts>>

BugCloseWithoutRetry ==
    /\ conn = "closed"
    /\ wire = <<>>
    /\ connected' = FALSE
    /\ UNCHANGED <<server, stream, shown, told, status, mounts, writer, restarts>>

\* onclose, behind the frames that still arrive.
SocketCloses ==
    /\ conn = "closed"
    /\ wire = <<>>
    /\ conn' = "down"
    /\ connected' = FALSE
    /\ UNCHANGED <<server, next, wire, breaks, shown, told, status, mounts, writer, restarts>>

------------------------------------------------------------------------------
(* The audit writer.                                                       *)

\* What became of the events the writer went past: entries written, gaps
\* admitted, writes failed.
Count(written, missed, failed) ==
    audit' = [since   |-> audit.since,
              written |-> audit.written + written,
              missed  |-> audit.missed + missed,
              failed  |-> audit.failed + failed]

\* The task is spawned before anything else that sends; it listens from its
\* first poll on.
AuditSubscribes ==
    /\ auditNext = 0
    /\ auditNext' = Len(sent) + 1
    /\ audit' = [NothingYet EXCEPT !.since = Len(sent) + 1]
    /\ UNCHANGED <<server, stream, browser, restarts>>

\* A write may fail (a full disk); the writer goes on.
AuditEvent ==
    /\ auditNext \in 1 .. Len(sent)
    /\ Lost(auditNext) = 0
    /\ auditNext' = auditNext + 1
    /\ \/ sent[auditNext] \notin Kept /\ Count(0, 0, 0)
       \/ sent[auditNext] \in Kept /\ (Count(1, 0, 0) \/ Count(0, 0, 1))
    /\ UNCHANGED <<server, stream, browser, restarts>>

BugAuditLagResubscribes ==
    /\ auditNext # 0
    /\ Lost(auditNext) > 0
    /\ auditNext' = Len(sent) + 1
    /\ Count(0, Lost(auditNext), 0)
    /\ UNCHANGED <<server, stream, browser, restarts>>

\* Lagged: the gap is an entry of its own, whose write may fail too.
AuditGap ==
    /\ auditNext # 0
    /\ Lost(auditNext) > 0
    /\ auditNext' = auditNext + Lost(auditNext)
    /\ Count(0, Lost(auditNext), 0) \/ Count(0, 0, Lost(auditNext))
    /\ UNCHANGED <<server, stream, browser, restarts>>

------------------------------------------------------------------------------
Stream == Subscribe \/ Snapshot \/ Forward \/ StreamLags
Writer == AuditSubscribes \/ AuditEvent \/ AuditGap

Next ==
    \/ StoreArmed \/ SendArmed \/ SendOther \/ Restart
    \/ Stream \/ ConnectionBreaks
    \/ Mount \/ Connect \/ SocketCloses \/ Deliver
    \/ StatusReads \/ StatusArrives
    \/ Writer

\* Every task runs; the network delivers what it does not drop, and tells the
\* browser of a closed socket.
Fairness ==
    /\ WF_vars(SendArmed) /\ WF_vars(Stream)
    /\ WF_vars(Connect) /\ WF_vars(SocketCloses) /\ WF_vars(Deliver)
    /\ WF_vars(StatusReads) /\ WF_vars(StatusArrives)

Spec == Init /\ [][Next]_vars /\ Fairness

------------------------------------------------------------------------------
(* Safety.                                                                 *)

CaughtUp ==
    /\ conn = "live" /\ wire = <<>> /\ next = Len(sent) + 1
    /\ toSend = None

\* A browser that heard everything the stream had to say displays the armed
\* flag of the server, whatever was sent while it connected, however far the
\* stream fell behind and whichever process it first talked to.
StreamTruth == CaughtUp /\ told = "stream" => shown = armed

\* Whatever is missing from the audit log is admitted: by the entries for
\* gaps, or by the writes that failed (audit.rs:22-31).
Heard == {k \in 1 .. Len(sent) : audit.since <= k /\ k < auditNext}
AuditAdmitsGaps ==
    Cardinality({k \in Heard : sent[k] \in Kept}) <=
        audit.written + audit.missed + audit.failed

------------------------------------------------------------------------------
(* Liveness.                                                               *)

\* Once the page is loaded and the network holds, the browser ends connected
\* and up to date: a lagging stream, a broken connection and a restart are
\* all healed by a new snapshot.
PageSettles ==
    mounts > 0 ~> [](CaughtUp /\ connected /\ status = "done" /\ (told = "stream" => shown = armed))

------------------------------------------------------------------------------
(* What the repository says and the code does not do.                      *)

\* useEventSocket.ts:19: the panel "cannot silently go stale".
NeverSilentlyStale ==
    CaughtUp /\ connected /\ status = "done" => shown = armed
==============================================================================
