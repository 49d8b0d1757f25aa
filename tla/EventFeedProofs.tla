--------------------------- MODULE EventFeedProofs ---------------------------
(***************************************************************************)
(* Theorems about EventFeed, for any capacity of the bus and any number of *)
(* events, restarts, page loads and broken connections.                    *)
(***************************************************************************)
EXTENDS EventFeed, TLAPS, FiniteSetTheorems

Flags == ArmedEvents \union Answers
\* What a frame says of the armed flag.
Raises(f) == f \in {"arm", "armed"}

IsFlag(k) == k \in 1 .. Len(sent) /\ sent[k] \in ArmedEvents

\* Receivers are never ahead of the bus; what the audit writer counted is no
\* more than what it went past.
CursorInv ==
    /\ next <= Len(sent) + 1
    /\ toSend # None => Len(sent) < MaxEvents
    /\ IF auditNext = 0 THEN audit = NothingYet
       ELSE /\ 1 <= audit.since /\ audit.since <= auditNext
            /\ auditNext <= Len(sent) + 1
            /\ audit.written + audit.missed + audit.failed <= auditNext - audit.since

\* The flag event sent last is the flag, unless one is still owed, which is.
ServerInv ==
    /\ toSend # None => Raises(toSend) = armed
    /\ toSend = None =>
          \A k \in 1 .. Len(sent) :
             sent[k] \in ArmedEvents /\ (\A j \in k + 1 .. Len(sent) : ~IsFlag(j))
               => Raises(sent[k]) = armed

\* Nothing that a live stream still has to read will change the flag.
Quiet == toSend = None /\ \A k \in next .. Len(sent) : ~IsFlag(k)

\* The last flag on the wire is then the server's; with none there, a page that
\* was told by the stream shows it.
WireInv ==
    conn = "live" /\ Quiet =>
        /\ \A i \in 1 .. Len(wire) :
              wire[i] \in Flags /\ (\A j \in i + 1 .. Len(wire) : wire[j] \notin Flags)
                => Raises(wire[i]) = armed
        /\ (\A i \in 1 .. Len(wire) : wire[i] \notin Flags)
              => (told = "stream" => shown = armed)

StreamInv == TypeOK /\ CursorInv /\ ServerInv /\ WireInv

------------------------------------------------------------------------------
LEMMA AnswersAre == Answers = {"armed", "disarmed"}
  BY DEF Answers, Says

LEMMA SaysRaises == \A b \in BOOLEAN : Says(b) \in Flags /\ Raises(Says(b)) = b
  BY AnswersAre DEF Says, Raises, Flags

\* No flag event is both kinds of frame, and the others are none.
LEMMA FlagEvents ==
    \A e \in Events : (e \in Flags <=> e \in ArmedEvents)
  BY AnswersAre DEF Events, Flags, ArmedEvents

LEMMA LostBounds ==
    ASSUME NEW n \in Nat, n <= Len(sent) + 1, Len(sent) \in Nat
    PROVE  Lost(n) \in Nat /\ n + Lost(n) <= Len(sent) + 1
  BY EventFeedAssumption DEF Lost

------------------------------------------------------------------------------
(* The types, with the cursors.                                            *)

LEMMA TypeStep == TypeOK /\ CursorInv /\ [Next]_vars => (TypeOK /\ CursorInv)'
  <1> SUFFICES ASSUME TypeOK, CursorInv, [Next]_vars PROVE (TypeOK /\ CursorInv)'
    OBVIOUS
  <1> USE EventFeedAssumption
  <1>0. /\ Len(sent) \in Nat
        /\ next \in Nat /\ auditNext \in Nat
        /\ audit \in [since : Nat, written : Nat, missed : Nat, failed : Nat]
    BY DEF TypeOK
  <1>b. \A b \in BOOLEAN : Says(b) \in Frames /\ Says(b) \in Answers
    BY DEF Frames, Answers
  <1>1. CASE StoreArmed
    BY <1>0, <1>1 DEF StoreArmed, TypeOK, CursorInv, stream, browser, writer, ArmedEvents
  <1>2. ASSUME NEW e \in Events, Emit(e), toSend' = None \/ toSend' = toSend,
               toSend' # None => Len(sent) + 1 < MaxEvents,
               UNCHANGED <<armed, stream, browser, writer, restarts>>
        PROVE  (TypeOK /\ CursorInv)'
    <2>1. sent' \in Seq(Events) /\ Len(sent') = Len(sent) + 1 /\ Len(sent') <= MaxEvents
      BY <1>0, <1>2 DEF Emit, TypeOK
    <2>2. TypeOK'
      BY <1>2, <2>1 DEF TypeOK, stream, browser, writer
    <2>3. CursorInv'
      BY <1>0, <1>2, <2>1 DEF CursorInv, stream, browser, writer
    <2> QED BY <2>2, <2>3
  <1>3. CASE SendArmed
    BY <1>2, <1>3 DEF SendArmed, TypeOK, Events
  <1>4. CASE SendOther
    BY <1>2, <1>4 DEF SendOther
  <1>5. CASE Restart
    <2>1. sent' = <<>> /\ Len(sent') = 0
      BY <1>5 DEF Restart
    <2>2. sent' \in Seq(Events)
      BY <2>1
    <2>3. NothingYet \in [since : 0 .. MaxEvents + 1, written : 0 .. MaxEvents,
                          missed : 0 .. MaxEvents, failed : 0 .. MaxEvents]
      BY DEF NothingYet
    <2>a. /\ armed' = FALSE /\ toSend' = None /\ next' = 1 /\ auditNext' = 0
          /\ audit' = NothingYet /\ restarts' \in 0 .. MaxRestarts
          /\ conn' \in {conn, "closed"} /\ status' \in {status, "done"}
          /\ UNCHANGED <<wire, connected, shown, told, mounts, breaks>>
      BY <1>5 DEF Restart, TypeOK
    <2>b. /\ Len(sent') <= MaxEvents /\ next' \in 1 .. MaxEvents + 1
          /\ auditNext' \in 0 .. MaxEvents + 1
      BY <2>1, <2>a
    <2>4. TypeOK'
      BY <2>2, <2>3, <2>a, <2>b DEF TypeOK
    <2>5. CursorInv'
      BY <1>5, <2>1 DEF Restart, CursorInv
    <2> QED BY <2>4, <2>5
  <1>6. CASE Subscribe
    BY <1>0, <1>6 DEF Subscribe, TypeOK, CursorInv, server, browser, writer
  <1>7. CASE Snapshot
    BY <1>7, <1>b DEF Snapshot, TypeOK, CursorInv, server, browser, writer
  <1>8. CASE Forward
    <2>1. sent[next] \in Frames
      BY <1>0, <1>8 DEF Forward, TypeOK, Frames
    <2>2. wire' \in Seq(Frames)
      BY <1>8, <2>1 DEF Forward, TypeOK
    <2>3. next' \in 1 .. MaxEvents + 1 /\ next' <= Len(sent) + 1
      BY <1>0, <1>8 DEF Forward, TypeOK
    <2> QED BY <1>8, <2>2, <2>3 DEF Forward, TypeOK, CursorInv, server, browser, writer
  <1>9. CASE StreamLags
    BY <1>9 DEF StreamLags, TypeOK, CursorInv, server, browser, writer
  <1>10. CASE ConnectionBreaks
    <2>1. wire' \in Seq(Frames)
      BY <1>10 DEF ConnectionBreaks
    <2>2. TypeOK'
      BY <1>10, <2>1 DEF ConnectionBreaks, TypeOK, server, browser, writer
    <2>3. CursorInv'
      BY <1>10 DEF ConnectionBreaks, CursorInv, server, browser, writer
    <2> QED BY <2>2, <2>3
  <1>11. CASE Mount
    <2>1. wire' \in Seq(Frames)
      BY <1>11 DEF Mount
    <2>a. /\ conn' = "down" /\ connected' = FALSE /\ shown' = FALSE
          /\ told' = "initial" /\ status' = "asked" /\ mounts' \in 0 .. MaxMounts
          /\ UNCHANGED <<armed, toSend, sent, next, breaks, auditNext, audit, restarts>>
      BY <1>11 DEF Mount, TypeOK, server, writer
    <2>2. TypeOK'
      BY <2>1, <2>a DEF TypeOK
    <2>3. CursorInv'
      BY <1>11 DEF Mount, CursorInv, server, writer
    <2> QED BY <2>2, <2>3
  <1>12. CASE Connect \/ SocketCloses
    BY <1>12 DEF Connect, SocketCloses, TypeOK, CursorInv, server, writer
  <1>13. CASE Deliver
    <2>1. wire' \in Seq(Frames)
      BY <1>13 DEF Deliver, TypeOK
    <2>2. shown' \in BOOLEAN /\ told' \in {"initial", "status", "stream"}
      <3>1. CASE Head(wire) \in ArmedEvents \union Answers
        BY <1>13, <3>1 DEF Deliver
      <3>2. CASE Head(wire) \notin ArmedEvents \union Answers
        BY <1>13, <3>2 DEF Deliver, TypeOK
      <3> QED BY <3>1, <3>2
    <2>3. UNCHANGED <<armed, toSend, sent, conn, next, breaks, connected, status, mounts,
                      auditNext, audit, restarts>>
      BY <1>13 DEF Deliver, server, writer
    <2>4. TypeOK'
      BY <2>1, <2>2, <2>3 DEF TypeOK
    <2>5. CursorInv'
      BY <2>3 DEF CursorInv
    <2> QED BY <2>4, <2>5
  <1>14. CASE StatusReads \/ StatusArrives
    BY <1>14, <1>b DEF StatusReads, StatusArrives, TypeOK, CursorInv, server, stream, writer
  <1>15. CASE AuditSubscribes
    <2>1. audit' = [since |-> Len(sent) + 1, written |-> 0, missed |-> 0, failed |-> 0]
      BY <1>15 DEF AuditSubscribes, NothingYet
    <2>2. Len(sent) <= MaxEvents
      BY DEF TypeOK
    <2>3. auditNext' = Len(sent) + 1 /\ UNCHANGED <<server, stream, browser, restarts>>
      BY <1>15 DEF AuditSubscribes
    <2>4. audit' \in [since : 0 .. MaxEvents + 1, written : 0 .. MaxEvents,
                      missed : 0 .. MaxEvents, failed : 0 .. MaxEvents]
      BY <1>0, <2>1, <2>2
    <2>5. TypeOK'
      BY <1>0, <2>2, <2>3, <2>4 DEF TypeOK, server, stream, browser
    <2>6. CursorInv'
      BY <1>0, <2>1, <2>3 DEF CursorInv, server, stream, browser
    <2> QED BY <2>5, <2>6
  <1>16. ASSUME NEW w \in Nat, NEW m \in Nat, NEW f \in Nat, NEW n \in Nat,
                auditNext # 0, auditNext' = auditNext + n, auditNext + n <= Len(sent) + 1,
                Count(w, m, f), w + m + f <= n,
                UNCHANGED <<server, stream, browser, restarts>>
         PROVE  (TypeOK /\ CursorInv)'
    <2>1. Len(sent) <= MaxEvents /\ audit.since \in 0 .. MaxEvents + 1
      BY DEF TypeOK
    <2>2. /\ audit'.since = audit.since
          /\ audit'.written = audit.written + w
          /\ audit'.missed = audit.missed + m
          /\ audit'.failed = audit.failed + f
      BY <1>16 DEF Count
    <2>3. /\ 1 <= audit.since /\ audit.since <= auditNext
          /\ audit.written + audit.missed + audit.failed <= auditNext - audit.since
      BY <1>16 DEF CursorInv
    <2>4. /\ audit.written \in Nat /\ audit.missed \in Nat /\ audit.failed \in Nat
          /\ audit.since \in Nat
      BY <1>0
    <2> DEFINE W == audit.written + w
               M == audit.missed + m
               F == audit.failed + f
    <2>a. W \in Nat /\ M \in Nat /\ F \in Nat
      BY <2>4
    <2>b. W + M + F <= auditNext' - audit.since
      <3>1. auditNext' = auditNext + n /\ w + m + f <= n
        BY <1>16
      <3>2. /\ auditNext \in Nat
            /\ audit.written + audit.missed + audit.failed <= auditNext - audit.since
        BY <1>0, <2>3
      <3>3. W + M + F
              <= audit.written + audit.missed + audit.failed + n
        BY <2>4, <3>1
      <3> QED BY <2>4, <2>a, <3>1, <3>2, <3>3
    <2>c. auditNext' \in 1 .. MaxEvents + 1
      BY <1>0, <1>16, <2>1
    <2>5. /\ W + M + F <= auditNext' - audit.since
          /\ W \in 0 .. MaxEvents /\ M \in 0 .. MaxEvents /\ F \in 0 .. MaxEvents
          /\ auditNext' \in 1 .. MaxEvents + 1
      <3> HIDE DEF W, M, F
      <3> QED BY <2>3, <2>4, <2>a, <2>b, <2>c
    <2>6. audit' \in [since : 0 .. MaxEvents + 1, written : 0 .. MaxEvents,
                      missed : 0 .. MaxEvents, failed : 0 .. MaxEvents]
      BY <1>16, <2>1, <2>5 DEF Count
    <2>7. UNCHANGED <<armed, toSend, sent, conn, next, wire, breaks, connected, shown,
                      told, status, mounts, restarts>>
      BY <1>16 DEF server, stream, browser
    <2>8. TypeOK'
      BY <2>5, <2>6, <2>7 DEF TypeOK
    <2>9. CursorInv'
      <3>1. auditNext' # 0
        BY <1>0, <1>16
      <3>2. audit'.written + audit'.missed + audit'.failed <= auditNext' - audit'.since
        BY <2>2, <2>5
      <3>3. 1 <= audit'.since /\ audit'.since <= auditNext' /\ auditNext' <= Len(sent') + 1
        BY <1>0, <1>16, <2>2, <2>3, <2>4, <2>7
      <3> QED BY <2>7, <3>1, <3>2, <3>3 DEF CursorInv
    <2> QED BY <2>8, <2>9
  <1>17. CASE AuditEvent
    <2>1. auditNext # 0 /\ auditNext + 1 <= Len(sent) + 1 /\ auditNext' = auditNext + 1
      BY <1>0, <1>17 DEF AuditEvent
    <2>2. Count(0, 0, 0) \/ Count(1, 0, 0) \/ Count(0, 0, 1)
      BY <1>17 DEF AuditEvent
    <2>3. UNCHANGED <<server, stream, browser, restarts>>
      BY <1>17 DEF AuditEvent
    <2> QED BY <1>16, <2>1, <2>2, <2>3
  <1>18. CASE AuditGap
    <2> DEFINE n == Lost(auditNext)
    <2>1. n \in Nat /\ auditNext # 0 /\ auditNext + n <= Len(sent) + 1 /\ auditNext' = auditNext + n
      BY <1>0, <1>18, LostBounds DEF AuditGap, CursorInv
    <2>2. Count(0, n, 0) \/ Count(0, 0, n)
      BY <1>18 DEF AuditGap
    <2>3. UNCHANGED <<server, stream, browser, restarts>>
      BY <1>18 DEF AuditGap
    <2> HIDE DEF n
    <2> QED BY <1>16, <2>1, <2>2, <2>3
  <1>19. CASE UNCHANGED vars
    BY <1>19 DEF vars, server, stream, browser, writer, TypeOK, CursorInv
  <1> QED BY <1>1, <1>3, <1>4, <1>5, <1>6, <1>7, <1>8, <1>9, <1>10, <1>11, <1>12,
             <1>13, <1>14, <1>15, <1>17, <1>18, <1>19 DEF Next, Stream, Writer

LEMMA TypeInit == Init => TypeOK /\ CursorInv
  <1> SUFFICES ASSUME Init PROVE TypeOK /\ CursorInv
    OBVIOUS
  <1>1. /\ sent \in Seq(Events) /\ Len(sent) = 0
        /\ wire \in Seq(Frames)
    BY DEF Init
  <1>2. audit \in [since : 0 .. MaxEvents + 1, written : 0 .. MaxEvents,
                   missed : 0 .. MaxEvents, failed : 0 .. MaxEvents]
    BY EventFeedAssumption DEF Init, NothingYet
  <1>a. /\ armed = FALSE /\ toSend = None /\ conn = "down" /\ next = 1
        /\ connected = FALSE /\ shown = FALSE /\ told = "initial" /\ status = "unmounted"
        /\ auditNext = 0 /\ restarts = 0 /\ mounts = 0 /\ breaks = 0
    BY DEF Init
  <1>b. /\ Len(sent) <= MaxEvents /\ next \in 1 .. MaxEvents + 1
        /\ auditNext \in 0 .. MaxEvents + 1
        /\ restarts \in 0 .. MaxRestarts /\ mounts \in 0 .. MaxMounts
        /\ breaks \in 0 .. MaxBreaks
    BY <1>1, <1>a, EventFeedAssumption
  <1>3. TypeOK
    BY <1>1, <1>2, <1>a, <1>b DEF TypeOK
  <1>4. CursorInv
    BY <1>1 DEF Init, CursorInv
  <1> QED BY <1>3, <1>4

\* Every variable of the feed keeps its type: the cursors stay within the bus
\* and the audit log never counts more than there was.
THEOREM FeedTypeCorrect == Spec => []TypeOK
  <1>1. TypeOK /\ CursorInv /\ [Next]_vars => (TypeOK /\ CursorInv)'
    BY TypeStep
  <1> QED BY <1>1, TypeInit, PTL DEF Spec

------------------------------------------------------------------------------
(* The flag a page displays.                                               *)

LEMMA ServerStep ==
    TypeOK /\ CursorInv /\ ServerInv /\ [Next]_vars => ServerInv'
  <1> SUFFICES ASSUME TypeOK, CursorInv, ServerInv, [Next]_vars PROVE ServerInv'
    OBVIOUS
  <1>0. Len(sent) \in Nat /\ sent \in Seq(Events)
    BY DEF TypeOK
  <1>k. ASSUME UNCHANGED server PROVE ServerInv'
    BY <1>k DEF ServerInv, IsFlag, server
  <1>1. CASE StoreArmed
    BY <1>1 DEF StoreArmed, ServerInv, Raises, None, TypeOK
  <1>2. CASE SendArmed
    <2>1. toSend \in ArmedEvents /\ Raises(toSend) = armed
      BY <1>2 DEF SendArmed, TypeOK, ServerInv
    <2>2. /\ sent' = Append(sent, toSend) /\ Len(sent') = Len(sent) + 1
          /\ sent'[Len(sent) + 1] = toSend
      BY <1>0, <1>2 DEF SendArmed, Emit
    <2>3. toSend' = None /\ armed' = armed
      BY <1>2 DEF SendArmed
    <2>a. PICK n \in Nat : n = Len(sent) + 1
      BY <1>0
    <2>4. IsFlag(n)'
      BY <1>0, <2>1, <2>2, <2>a DEF IsFlag
    <2>5. ASSUME NEW k \in 1 .. Len(sent'),
                 \A j \in k + 1 .. Len(sent') : ~IsFlag(j)'
          PROVE  Raises(sent'[k]) = armed'
      <3>1. k = Len(sent) + 1
        BY <1>0, <2>2, <2>4, <2>5, <2>a
      <3> QED BY <2>1, <2>2, <2>3, <3>1 DEF Raises
    <2> QED BY <2>3, <2>5 DEF ServerInv
  <1>3. CASE SendOther
    <2>1. PICK e \in Events \ ArmedEvents : Emit(e)
      BY <1>3 DEF SendOther
    <2>2. /\ Len(sent') = Len(sent) + 1 /\ sent'[Len(sent) + 1] = e
          /\ \A k \in 1 .. Len(sent) : sent'[k] = sent[k]
      BY <1>0, <2>1 DEF Emit
    <2>3. toSend' = toSend /\ armed' = armed
      BY <1>3 DEF SendOther
    <2>4. ASSUME NEW k \in 1 .. Len(sent'), toSend = None, sent'[k] \in ArmedEvents,
                 \A j \in k + 1 .. Len(sent') : ~IsFlag(j)'
          PROVE  Raises(sent'[k]) = armed
      <3>1. k \in 1 .. Len(sent)
        BY <1>0, <2>1, <2>2, <2>4
      <3>2. \A j \in k + 1 .. Len(sent) : ~IsFlag(j)
        BY <1>0, <2>2, <2>4, <3>1 DEF IsFlag
      <3>3. Raises(sent[k]) = armed
        BY <2>2, <2>4, <3>1, <3>2 DEF ServerInv
      <3> QED BY <2>2, <3>1, <3>3
    <2>5. toSend # None => Raises(toSend)' = armed'
      BY <2>3 DEF ServerInv, Raises
    <2> QED BY <2>3, <2>4, <2>5 DEF ServerInv, Raises
  <1>4. CASE Restart
    <2>1. Len(sent') = 0 /\ toSend' = None
      BY <1>4 DEF Restart
    <2> QED BY <2>1 DEF ServerInv
  <1>5. CASE Stream \/ ConnectionBreaks \/ Mount \/ Connect \/ SocketCloses \/ Deliver
             \/ StatusReads \/ StatusArrives \/ Writer \/ UNCHANGED vars
    BY <1>5, <1>k DEF Stream, Subscribe, Snapshot, Forward, StreamLags, ConnectionBreaks,
       Mount, Connect, SocketCloses, Deliver, StatusReads, StatusArrives, Writer,
       AuditSubscribes, AuditEvent, AuditGap, vars
  <1> QED BY <1>1, <1>2, <1>3, <1>4, <1>5 DEF Next

\* The two halves of what is known of the wire.
LastOnWire ==
    \A i \in 1 .. Len(wire) :
       wire[i] \in Flags /\ (\A j \in i + 1 .. Len(wire) : wire[j] \notin Flags)
         => Raises(wire[i]) = armed
NoneOnWire == \A i \in 1 .. Len(wire) : wire[i] \notin Flags

LEMMA WireStep == StreamInv /\ [Next]_vars => WireInv'
  <1> SUFFICES ASSUME StreamInv, [Next]_vars PROVE WireInv'
    OBVIOUS
  <1>0. /\ TypeOK /\ CursorInv /\ ServerInv
        /\ conn = "live" /\ Quiet => LastOnWire /\ (NoneOnWire => (told = "stream" => shown = armed))
    BY DEF StreamInv, WireInv, LastOnWire, NoneOnWire
  <1>1. /\ Len(sent) \in Nat /\ sent \in Seq(Events) /\ next \in Nat /\ 1 <= next
        /\ next <= Len(sent) + 1 /\ wire \in Seq(Frames) /\ Len(wire) \in Nat
    BY <1>0 DEF TypeOK, CursorInv
  <1>w. WireInv' <=> (conn' = "live" /\ Quiet'
          => LastOnWire' /\ (NoneOnWire' => (told' = "stream" => shown' = armed')))
    BY DEF WireInv, LastOnWire, NoneOnWire
  <1>k. ASSUME UNCHANGED <<armed, conn, wire>>, Quiet' => Quiet,
               (told' = told /\ shown' = shown) \/ told' = "status"
        PROVE  WireInv'
    <2>1. (LastOnWire => LastOnWire') /\ (NoneOnWire' => NoneOnWire)
      BY <1>k DEF LastOnWire, NoneOnWire
    <2> QED BY <1>0, <1>k, <1>w, <2>1
  <1>2. CASE StoreArmed
    BY <1>2 DEF StoreArmed, WireInv, Quiet, None
  <1>3. CASE SendArmed
    <2>1. toSend \in ArmedEvents
      BY <1>0, <1>3 DEF SendArmed, TypeOK
    <2>2. Len(sent') = Len(sent) + 1 /\ sent'[Len(sent) + 1] = toSend
      BY <1>1, <1>3 DEF SendArmed, Emit
    <2>a. PICK n \in Nat : n = Len(sent) + 1
      BY <1>1
    <2>3. IsFlag(n)'
      BY <1>1, <2>1, <2>2, <2>a DEF IsFlag
    <2>4. next' = next
      BY <1>3 DEF SendArmed, stream
    <2>5. ~Quiet'
      BY <1>1, <2>2, <2>3, <2>4, <2>a DEF Quiet
    <2> QED BY <2>5 DEF WireInv
  <1>4. CASE SendOther
    <2>1. PICK e \in Events \ ArmedEvents : Emit(e)
      BY <1>4 DEF SendOther
    <2>2. /\ Len(sent') = Len(sent) + 1
          /\ \A k \in 1 .. Len(sent) : sent'[k] = sent[k]
      BY <1>1, <2>1 DEF Emit
    <2>3. UNCHANGED <<armed, toSend, conn, next, wire, told, shown>>
      BY <1>4 DEF SendOther, stream, browser
    <2>4. Quiet' => Quiet
      BY <1>1, <2>2, <2>3 DEF Quiet, IsFlag
    <2> QED BY <1>k, <2>3, <2>4
  <1>5. CASE Snapshot
    <2>1. /\ wire' = Append(wire, Says(armed)) /\ armed' = armed
      BY <1>5 DEF Snapshot, server
    <2>2. Len(wire') = Len(wire) + 1 /\ wire'[Len(wire) + 1] = Says(armed)
      BY <1>1, <2>1
    <2>3. wire'[Len(wire')] \in Flags /\ Raises(wire'[Len(wire')]) = armed
      BY <1>0, <1>1, <2>2, SaysRaises DEF TypeOK
    <2>4. ASSUME NEW i \in 1 .. Len(wire'), \A j \in i + 1 .. Len(wire') : wire'[j] \notin Flags
          PROVE  Raises(wire'[i]) = armed
      <3>1. i = Len(wire')
        BY <1>1, <2>2, <2>3, <2>4
      <3> QED BY <2>3, <3>1
    <2>5. LastOnWire'
      BY <2>1, <2>4 DEF LastOnWire, Raises
    <2>6. ~NoneOnWire'
      BY <1>1, <2>2, <2>3 DEF NoneOnWire
    <2> QED BY <1>w, <2>5, <2>6
  <1>6. CASE Forward
    <2>1. /\ conn = "live" /\ next \in 1 .. Len(sent) /\ wire' = Append(wire, sent[next])
          /\ next' = next + 1 /\ UNCHANGED <<armed, toSend, sent, told, shown>>
      BY <1>1, <1>6 DEF Forward, server, browser
    <2>2. /\ Len(wire') = Len(wire) + 1 /\ wire'[Len(wire) + 1] = sent[next]
          /\ \A i \in 1 .. Len(wire) : wire'[i] = wire[i]
      BY <1>1, <2>1
    <2>3. sent[next] \in Events
      BY <1>1, <2>1
    <2>4. SUFFICES ASSUME Quiet'
                   PROVE  LastOnWire' /\ (NoneOnWire' => (told = "stream" => shown = armed))
      BY <1>w, <2>1
    <2>5. toSend = None /\ \A k \in next + 1 .. Len(sent) : ~IsFlag(k)
      BY <2>1, <2>4 DEF Quiet, IsFlag
    <2>6. CASE sent[next] \in ArmedEvents
      <3>1. Raises(sent[next]) = armed
        BY <1>0, <2>1, <2>5, <2>6 DEF ServerInv
      <3>2. sent[next] \in Flags
        BY <2>6 DEF Flags
      <3>3. ASSUME NEW i \in 1 .. Len(wire'),
                   \A j \in i + 1 .. Len(wire') : wire'[j] \notin Flags
            PROVE  Raises(wire'[i]) = armed
        <4>1. i = Len(wire) + 1
          BY <1>1, <2>2, <3>2, <3>3
        <4> QED BY <2>2, <3>1, <4>1
      <3>4. LastOnWire'
        BY <2>1, <3>3 DEF LastOnWire, Raises
      <3>5. ~NoneOnWire'
        BY <1>1, <2>2, <3>2 DEF NoneOnWire
      <3> QED BY <3>4, <3>5
    <2>7. CASE sent[next] \notin ArmedEvents
      <3>1. sent[next] \notin Flags
        BY <2>3, <2>7, FlagEvents
      <3>2. ~IsFlag(next)
        BY <2>7 DEF IsFlag
      <3>3. Quiet
        BY <1>1, <2>5, <3>2 DEF Quiet
      <3>4. LastOnWire /\ (NoneOnWire => (told = "stream" => shown = armed))
        BY <1>0, <2>1, <3>3
      <3>5. ASSUME NEW i \in 1 .. Len(wire'), wire'[i] \in Flags,
                   \A j \in i + 1 .. Len(wire') : wire'[j] \notin Flags
            PROVE  Raises(wire'[i]) = armed
        <4>1. i \in 1 .. Len(wire)
          BY <1>1, <2>2, <3>1, <3>5
        <4>2. \A j \in i + 1 .. Len(wire) : wire[j] \notin Flags
          BY <1>1, <2>2, <3>5, <4>1
        <4> QED BY <2>2, <3>4, <3>5, <4>1, <4>2 DEF LastOnWire
      <3>6. LastOnWire'
        BY <2>1, <3>5 DEF LastOnWire, Raises
      <3>7. NoneOnWire' => NoneOnWire
        BY <1>1, <2>2 DEF NoneOnWire
      <3> QED BY <3>4, <3>6, <3>7
    <2> QED BY <2>6, <2>7
  <1>7. CASE Restart \/ Subscribe \/ StreamLags \/ ConnectionBreaks \/ Mount \/ Connect
             \/ SocketCloses
    BY <1>7 DEF Restart, Subscribe, StreamLags, ConnectionBreaks, Mount, Connect,
       SocketCloses, WireInv
  <1>8. CASE Deliver
    <2>1. /\ wire # <<>> /\ wire' = Tail(wire)
          /\ UNCHANGED <<armed, toSend, sent, conn, next>>
      BY <1>8 DEF Deliver, server
    <2>2. /\ 1 <= Len(wire) /\ Len(wire') = Len(wire) - 1
          /\ \A i \in 1 .. Len(wire') : wire'[i] = wire[i + 1]
      BY <1>1, <2>1
    <2>3. Head(wire) = wire[1]
      BY <2>1
    <2>4. SUFFICES ASSUME conn = "live", Quiet
                   PROVE  LastOnWire' /\ (NoneOnWire' => (told' = "stream" => shown' = armed))
      <3>1. Quiet' = Quiet
        BY <2>1 DEF Quiet, IsFlag
      <3> QED BY <1>w, <2>1, <2>4, <3>1
    <2>5. LastOnWire /\ (NoneOnWire => (told = "stream" => shown = armed))
      BY <1>0, <2>4
    <2>6. LastOnWire'
      <3>1. ASSUME NEW i \in 1 .. Len(wire'), wire'[i] \in Flags,
                   \A j \in i + 1 .. Len(wire') : wire'[j] \notin Flags
            PROVE  Raises(wire'[i]) = armed
        <4>1. i + 1 \in 1 .. Len(wire) /\ wire'[i] = wire[i + 1]
          BY <1>1, <2>2
        <4>2. \A j \in (i + 1) + 1 .. Len(wire) : wire[j] \notin Flags
          <5> SUFFICES ASSUME NEW j \in (i + 1) + 1 .. Len(wire) PROVE wire[j] \notin Flags
            OBVIOUS
          <5>1. j - 1 \in i + 1 .. Len(wire') /\ j - 1 \in 1 .. Len(wire')
            BY <1>1, <2>2
          <5>2. wire'[j - 1] = wire[j]
            BY <1>1, <2>2, <5>1
          <5> QED BY <3>1, <5>1, <5>2
        <4> QED BY <2>5, <3>1, <4>1, <4>2 DEF LastOnWire
      <3> QED BY <2>1, <3>1 DEF LastOnWire, Raises
    <2>7. ASSUME NoneOnWire', told' = "stream" PROVE shown' = armed
      <3>1. \A j \in 2 .. Len(wire) : wire[j] \notin Flags
        <4> SUFFICES ASSUME NEW j \in 2 .. Len(wire) PROVE wire[j] \notin Flags
          OBVIOUS
        <4>1. j - 1 \in 1 .. Len(wire')
          BY <1>1, <2>2
        <4>2. wire'[j - 1] = wire[j]
          BY <1>1, <2>2, <4>1
        <4> QED BY <2>7, <4>1, <4>2 DEF NoneOnWire
      <3>2. CASE wire[1] \in Flags
        <4>1. Raises(wire[1]) = armed
          <5>1. 1 \in 1 .. Len(wire)
            BY <1>1, <2>2
          <5> QED BY <2>5, <3>1, <3>2, <5>1 DEF LastOnWire
        <4>2. shown' = Raises(wire[1])
          BY <1>8, <2>3, <3>2 DEF Deliver, Flags, Raises
        <4> QED BY <4>1, <4>2
      <3>3. CASE wire[1] \notin Flags
        <4>1. told' = told /\ shown' = shown
          BY <1>8, <2>3, <3>3 DEF Deliver, Flags
        <4>2. NoneOnWire
          BY <1>1, <3>1, <3>3 DEF NoneOnWire
        <4> QED BY <2>5, <2>7, <4>1, <4>2
      <3> QED BY <3>2, <3>3
    <2> QED BY <2>6, <2>7
  <1>9. CASE StatusReads \/ StatusArrives \/ Writer \/ UNCHANGED vars
    <2>1. UNCHANGED <<armed, toSend, sent, conn, next, wire>>
      BY <1>9 DEF StatusReads, StatusArrives, Writer, AuditSubscribes, AuditEvent, AuditGap,
         vars, server, stream
    <2>2. (told' = told /\ shown' = shown) \/ told' = "status"
      BY <1>9 DEF StatusReads, StatusArrives, Writer, AuditSubscribes, AuditEvent, AuditGap,
         vars, browser
    <2>3. Quiet' => Quiet
      BY <2>1 DEF Quiet, IsFlag
    <2> QED BY <1>k, <2>1, <2>2, <2>3
  <1> QED BY <1>2, <1>3, <1>4, <1>5, <1>6, <1>7, <1>8, <1>9 DEF Next, Stream

\* A page that heard everything the stream had to say displays the server's
\* armed flag: whatever was sent while it connected, however far the stream
\* fell behind, through restarts, reloads and broken connections.
THEOREM StreamTruthCorrect == Spec => []StreamTruth
  <1>1. Init => StreamInv
    <2> SUFFICES ASSUME Init PROVE StreamInv
      OBVIOUS
    <2>1. Len(sent) = 0 /\ toSend = None /\ conn # "live"
      BY DEF Init
    <2> QED BY <2>1, TypeInit DEF StreamInv, ServerInv, WireInv
  <1>2. StreamInv /\ [Next]_vars => StreamInv'
    BY TypeStep, ServerStep, WireStep DEF StreamInv
  <1>3. StreamInv => StreamTruth
    <2> SUFFICES ASSUME StreamInv, CaughtUp, told = "stream" PROVE shown = armed
      BY DEF StreamTruth
    <2>1. Quiet
      <3>1. \A k \in next .. Len(sent) : FALSE
        BY DEF CaughtUp, StreamInv, TypeOK
      <3> QED BY <3>1 DEF Quiet, CaughtUp
    <2>2. \A i \in 1 .. Len(wire) : wire[i] \notin Flags
      BY DEF CaughtUp
    <2> QED BY <2>1, <2>2 DEF StreamInv, WireInv, CaughtUp
  <1> QED BY <1>1, <1>2, <1>3, PTL DEF Spec

------------------------------------------------------------------------------
(* The audit log.                                                          *)

KeptHeard == {k \in Heard : sent[k] \in Kept}

\* While nobody else reads its events, the writer's past stays what it was.
LEMMA AuditStep ==
    ASSUME TypeOK, CursorInv, AuditAdmitsGaps, [Next]_vars
    PROVE  AuditAdmitsGaps'
  <1> DEFINE Sum == audit.written + audit.missed + audit.failed
  <1>0. /\ Len(sent) \in Nat /\ sent \in Seq(Events) /\ auditNext \in Nat
        /\ audit \in [since : Nat, written : Nat, missed : Nat, failed : Nat]
        /\ auditNext <= Len(sent) + 1
    BY DEF TypeOK, CursorInv
  <1>1. IsFiniteSet(KeptHeard) /\ Cardinality(KeptHeard) \in Nat /\ Cardinality(KeptHeard) <= Sum
    <2>1. IsFiniteSet(1 .. Len(sent))
      BY <1>0, FS_Interval
    <2>2. KeptHeard \subseteq 1 .. Len(sent)
      BY DEF KeptHeard, Heard
    <2>3. IsFiniteSet(KeptHeard)
      BY <2>1, <2>2, FS_Subset
    <2> QED BY <2>3, FS_CardinalityType DEF AuditAdmitsGaps, KeptHeard
  <1>a. AuditAdmitsGaps' <=> Cardinality(KeptHeard') <= Sum'
    BY DEF AuditAdmitsGaps, KeptHeard
  <1>k. ASSUME UNCHANGED <<auditNext, audit>>, Len(sent) <= Len(sent'), Len(sent') \in Nat,
               \A k \in 1 .. Len(sent) : sent'[k] = sent[k]
        PROVE  AuditAdmitsGaps'
    <2>1. KeptHeard' = KeptHeard
      BY <1>0, <1>k DEF KeptHeard, Heard
    <2> QED BY <1>1, <1>a, <1>k, <2>1
  <1>n. ASSUME KeptHeard' = {}, Sum' \in Nat PROVE AuditAdmitsGaps'
    BY <1>a, <1>n, FS_EmptySet
  <1>2. CASE SendArmed \/ SendOther
    <2>1. PICK e \in Events : Emit(e)
      BY <1>2 DEF SendArmed, SendOther, TypeOK, Events
    <2>2. Len(sent') = Len(sent) + 1 /\ \A k \in 1 .. Len(sent) : sent'[k] = sent[k]
      BY <1>0, <2>1 DEF Emit
    <2> QED BY <1>0, <1>2, <1>k, <2>2 DEF SendArmed, SendOther, writer
  <1>3. CASE Restart
    <2>1. KeptHeard' = {}
      BY <1>3 DEF Restart, KeptHeard, Heard
    <2>2. Sum' \in Nat
      BY <1>3 DEF Restart, NothingYet
    <2> QED BY <1>n, <2>1, <2>2
  <1>4. CASE AuditSubscribes
    <2>1. audit' = [since |-> Len(sent) + 1, written |-> 0, missed |-> 0, failed |-> 0]
          /\ auditNext' = Len(sent) + 1 /\ sent' = sent
      BY <1>4 DEF AuditSubscribes, NothingYet, server
    <2>2. KeptHeard' = {}
      BY <1>0, <2>1 DEF KeptHeard, Heard
    <2>3. Sum' \in Nat
      BY <2>1
    <2> QED BY <1>n, <2>2, <2>3
  <1>5. CASE AuditEvent
    <2>1. /\ auditNext' = auditNext + 1 /\ auditNext \in 1 .. Len(sent) /\ sent' = sent
          /\ \/ sent[auditNext] \notin Kept /\ Count(0, 0, 0)
             \/ sent[auditNext] \in Kept /\ (Count(1, 0, 0) \/ Count(0, 0, 1))
      BY <1>5 DEF AuditEvent, server
    <2>2. audit'.since = audit.since
      BY <2>1 DEF Count
    <2>3. CASE sent[auditNext] \notin Kept
      <3>1. KeptHeard' \subseteq KeptHeard
        BY <1>0, <2>1, <2>2, <2>3 DEF KeptHeard, Heard
      <3>2. Cardinality(KeptHeard') <= Cardinality(KeptHeard)
        BY <1>1, <3>1, FS_Subset
      <3>3. Sum' = Sum
        BY <1>0, <2>1, <2>3 DEF Count
      <3>4. Cardinality(KeptHeard') \in Nat
        BY <1>1, <3>1, FS_Subset, FS_CardinalityType
      <3> QED BY <1>0, <1>1, <1>a, <3>2, <3>3, <3>4
    <2>4. CASE sent[auditNext] \in Kept
      <3>1. KeptHeard' \subseteq KeptHeard \union {auditNext}
        BY <1>0, <2>1, <2>2 DEF KeptHeard, Heard
      <3>2. IsFiniteSet(KeptHeard \union {auditNext})
            /\ Cardinality(KeptHeard \union {auditNext}) <= Cardinality(KeptHeard) + 1
        <4>1. /\ IsFiniteSet(KeptHeard \union {auditNext})
              /\ Cardinality(KeptHeard \union {auditNext})
                   = IF auditNext \in KeptHeard THEN Cardinality(KeptHeard)
                     ELSE Cardinality(KeptHeard) + 1
          BY <1>1, FS_AddElement
        <4>2. Cardinality(KeptHeard) \in Nat
          BY <1>1
        <4> QED BY <4>1, <4>2
      <3>3. Cardinality(KeptHeard') <= Cardinality(KeptHeard \union {auditNext})
            /\ Cardinality(KeptHeard') \in Nat
            /\ Cardinality(KeptHeard \union {auditNext}) \in Nat
        BY <3>1, <3>2, FS_Subset, FS_CardinalityType
      <3>4. Sum' = Sum + 1
        BY <1>0, <2>1, <2>4 DEF Count
      <3>5. Sum \in Nat
        BY <1>0
      <3> HIDE DEF Sum
      <3> QED BY <1>1, <1>a, <3>2, <3>3, <3>4, <3>5
    <2> QED BY <2>3, <2>4
  <1>6. CASE AuditGap
    <2> DEFINE n == Lost(auditNext)
               Gap == auditNext .. auditNext + n - 1
    <2>1. /\ auditNext' = auditNext + n /\ sent' = sent
          /\ Count(0, n, 0) \/ Count(0, 0, n)
      BY <1>6 DEF AuditGap, server
    <2>2. n \in Nat
      BY <1>0, LostBounds
    <2>3. audit'.since = audit.since
      BY <2>1 DEF Count
    <2>4. Sum' = Sum + n /\ Sum \in Nat
      <3> HIDE DEF n
      <3> QED BY <1>0, <2>1, <2>2 DEF Count
    <2>5. IsFiniteSet(Gap) /\ Cardinality(Gap) = n
      <3> HIDE DEF n
      <3>1. auditNext \in Int /\ auditNext + n - 1 \in Int
        BY <1>0, <2>2
      <3>2. /\ IsFiniteSet(Gap)
            /\ Cardinality(Gap) = IF auditNext > auditNext + n - 1 THEN 0
                                  ELSE (auditNext + n - 1) - auditNext + 1
        BY <3>1, FS_Interval
      <3> QED BY <1>0, <2>2, <3>2
    <2>6. KeptHeard' \subseteq KeptHeard \union Gap
      <3> HIDE DEF n
      <3> QED BY <1>0, <2>1, <2>2, <2>3 DEF KeptHeard, Heard
    <2> HIDE DEF n, Gap, Sum
    <2>7. /\ IsFiniteSet(KeptHeard \union Gap)
          /\ Cardinality(KeptHeard \union Gap) <= Cardinality(KeptHeard) + Cardinality(Gap)
      <3>1. Cardinality(KeptHeard \cap Gap) \in Nat
        BY <1>1, FS_Intersection, FS_CardinalityType
      <3>2. Cardinality(KeptHeard \union Gap) \in Nat /\ Cardinality(Gap) \in Nat
        BY <1>1, <2>5, FS_Union, FS_CardinalityType
      <3>3. /\ IsFiniteSet(KeptHeard \union Gap)
            /\ Cardinality(KeptHeard \union Gap) =
                  Cardinality(KeptHeard) + Cardinality(Gap) - Cardinality(KeptHeard \cap Gap)
        BY <1>1, <2>5, FS_Union
      <3>4. Cardinality(KeptHeard) \in Nat
        BY <1>1
      <3> QED BY <3>1, <3>2, <3>3, <3>4
    <2>8. /\ Cardinality(KeptHeard') <= Cardinality(KeptHeard \union Gap)
          /\ Cardinality(KeptHeard') \in Nat
          /\ Cardinality(KeptHeard \union Gap) \in Nat
      BY <2>6, <2>7, FS_Subset, FS_CardinalityType
    <2> QED BY <1>1, <1>a, <2>2, <2>4, <2>5, <2>7, <2>8
  <1>7. CASE StoreArmed \/ Stream \/ ConnectionBreaks \/ Mount \/ Connect \/ SocketCloses
             \/ Deliver \/ StatusReads \/ StatusArrives \/ UNCHANGED vars
    <2>1. UNCHANGED <<sent, auditNext, audit>>
      BY <1>7 DEF StoreArmed, Stream, Subscribe, Snapshot, Forward, StreamLags,
         ConnectionBreaks, Mount, Connect, SocketCloses, Deliver, StatusReads,
         StatusArrives, vars, server, writer
    <2> QED BY <1>0, <1>k, <2>1
  <1> QED BY <1>2, <1>3, <1>4, <1>5, <1>6, <1>7 DEF Next, Writer

\* Whatever the audit writer lost, its log admits: no kept event it was there
\* for goes unaccounted, for any capacity of the bus.
THEOREM AuditCorrect == Spec => []AuditAdmitsGaps
  <1>1. Init => AuditAdmitsGaps
    <2> SUFFICES ASSUME Init PROVE AuditAdmitsGaps
      OBVIOUS
    <2>1. {k \in Heard : sent[k] \in Kept} = {}
      BY DEF Init, Heard
    <2>2. audit.written + audit.missed + audit.failed = 0
      BY DEF Init, NothingYet
    <2> QED BY <2>1, <2>2, FS_EmptySet DEF AuditAdmitsGaps
  <1> QED BY <1>1, TypeInit, TypeStep, AuditStep, PTL DEF Spec
==============================================================================
