-------------------------- MODULE ConfigStoreProofs --------------------------
(***************************************************************************)
(* What holds of the configuration store for any number of pages, drops,   *)
(* settings, requests and crashes.                                         *)
(***************************************************************************)
EXTENDS ConfigStore, SequenceTheorems, TLAPS

------------------------------------------------------------------------------
(* Configurations.                                                         *)

LEMMA ConfigFields ==
    ASSUME NEW c \in Config
    PROVE  c.nft \in Drops /\ c.opt \in Options /\ c # None /\ c # Empty /\ c # Garbled
  BY ConfigAssumption DEF Config

\* Another drop, and nothing else.
LEMMA WithDrop ==
    ASSUME NEW c \in Config, NEW d \in Drops
    PROVE  /\ [c EXCEPT !.nft = d] \in Config
           /\ [c EXCEPT !.nft = d].nft = d
           /\ [c EXCEPT !.nft = d].opt = c.opt
  BY DEF Config

\* The start changes the trigger only.
LEMMA TimedKeeps ==
    ASSUME NEW c \in Config
    PROVE  Timed(c) \in Config /\ Timed(c).nft = c.nft /\ Timed(c).opt = c.opt
  <1>1. Starts[c.nft] \in Times /\ "timestamp" \in Modes
    BY ConfigAssumption DEF Config, Modes
  <1>2. ASSUME NEW t \in Times, NEW m \in Modes
        PROVE  /\ [c EXCEPT !.mode = m, !.trig = t] \in Config
               /\ [c EXCEPT !.mode = m, !.trig = t].nft = c.nft
               /\ [c EXCEPT !.mode = m, !.trig = t].opt = c.opt
    BY DEF Config
  <1> QED BY <1>1, <1>2 DEF Timed

LEMMA EditsTyped ==
    ASSUME NEW c \in Config
    PROVE  Edits(c) \subseteq Config
  <1>1. \A d \in Drops : [c EXCEPT !.nft = d] \in Config
    BY DEF Config
  <1>2. \A o \in Options : [c EXCEPT !.opt = o] \in Config
    BY DEF Config
  <1>3. \A x \in Modes \X Times : [c EXCEPT !.mode = x[1], !.trig = x[2]] \in Config
    BY DEF Config
  <1>4. ASSUME NEW e \in Edits(c) PROVE e \in Config
    <2>1. CASE e \in {[c EXCEPT !.nft = d] : d \in Drops}
      BY <1>1, <2>1
    <2>2. CASE e \in {[c EXCEPT !.opt = o] : o \in Options}
      BY <1>2, <2>2
    <2>3. CASE e \in {[c EXCEPT !.mode = x[1], !.trig = x[2]] : x \in Modes \X Times}
      BY <1>3, <2>3
    <2> QED BY <1>4, <2>1, <2>2, <2>3 DEF Edits
  <1> QED BY <1>4

------------------------------------------------------------------------------
(* Types.                                                                  *)

Choices == [nft : Drops, opt : Options, by : {"start", "put", "set"}]

LEMMA TypeInit == Init => TypeOK
  <1> SUFFICES ASSUME Init PROVE TypeOK
    OBVIOUS
  <1>1. file \in Config /\ file.nft \in Drops /\ file.opt \in Options
    BY ConfigFields DEF Init
  <1>2. choice \in Choices
    BY <1>1 DEF Init, Choices
  <1>3. chan \in Seq(Drops) /\ Len(chan) <= QueueCap
    BY ConfigAssumption DEF Init
  <1>4. now \in Times /\ begun \in 0 .. MaxCalls /\ crashes \in 0 .. MaxCrashes
    BY ConfigAssumption DEF Init, Times
  <1> QED BY <1>1, <1>2, <1>3, <1>4 DEF Init, TypeOK, Points, Choices

\* What a request writes and does next.
CallsOK ==
    /\ at \in [Requests -> Points]
    /\ body \in [Requests -> Config \union {None}]
    /\ orphan \subseteq Requests
    /\ begun \in 0 .. MaxCalls

LEMMA MoveTyped ==
    ASSUME CallsOK, NEW r \in Requests, NEW to \in Points, Move(r, to)
    PROVE  CallsOK'
  BY DEF CallsOK, Move

LEMMA ArriveTyped ==
    ASSUME CallsOK, NEW r \in Requests, NEW p \in Points, NEW c \in Config, Arrive(r, p, c)
    PROVE  CallsOK'
  <1>1. begun' \in 0 .. MaxCalls
    BY ConfigAssumption DEF CallsOK, Arrive
  <1> QED BY <1>1 DEF CallsOK, Arrive

\* A request under way has a configuration to write, and only a target set
\* asks the chain and tells the loop.  Nothing runs while the program is down.
CallInv(r) ==
    /\ at[r] # "idle" => up /\ body[r] \in Config
    /\ at[r] \in {"resolve", "invalid", "send"} => Kind(r) = "set"

Running ==
    /\ up => memory \in Config
    /\ ~up => chan = <<>>
    /\ \A r \in Requests : CallInv(r)

LEMMA TypeStep ==
    ASSUME TypeOK, Running, [Next]_vars
    PROVE  TypeOK'
  <1> USE DEF server, calls, history
  <1>0. CallsOK
    BY DEF TypeOK, CallsOK
  <1>1. CASE UNCHANGED vars
    BY <1>1 DEF vars, TypeOK
  <1>2. CASE Start
    <2>1. Timed(file) \in Config /\ file.nft \in Drops /\ file.opt \in Options
      BY <1>2, TimedKeeps, ConfigFields DEF Start
    <2>2. choice' \in Choices
      BY <1>2, <2>1 DEF Start, TypeOK, Choices
    <2> QED BY <1>2, <2>1, <2>2 DEF Start, TypeOK, Choices
  <1>3. CASE Crash
    <2>1. crashes' \in 0 .. MaxCrashes /\ <<>> \in Seq(Drops) /\ Len(<<>>) <= QueueCap
      BY <1>3, ConfigAssumption DEF Crash, TypeOK
    <2> QED BY <1>3, <2>1 DEF Crash, TypeOK, Points
  <1>4. CASE Tick
    <2>1. now' \in Times
      BY <1>4, ConfigAssumption DEF Tick, TypeOK, Times
    <2> QED BY <1>4, <2>1 DEF Tick, TypeOK
  <1>5. ASSUME NEW p \in Pages, LoadPage(p) \/ Save(p) \/ SetTarget(p) PROVE TypeOK'
    <2>1. CASE LoadPage(p)
      BY <2>1 DEF LoadPage, TypeOK
    <2>2. CASE Save(p)
      <3>1. PICK c \in Edits(draft[p]) :
              /\ draft' = [draft EXCEPT ![p] = c]
              /\ Arrive(<<p, "put">>, "commit", c) \/ UNCHANGED calls
        BY <2>2 DEF Save
      <3>2. c \in Config
        BY <2>2, EditsTyped DEF Save, TypeOK
      <3>3. CallsOK'
        BY <1>0, <3>1, <3>2, ArriveTyped DEF Requests, Points, CallsOK
      <3> QED BY <2>2, <3>1, <3>2, <3>3 DEF Save, TypeOK, CallsOK
    <2>3. CASE SetTarget(p)
      <3>1. PICK d \in Drops : Arrive(<<p, "set">>, "resolve", [memory EXCEPT !.nft = d])
        BY <2>3 DEF SetTarget
      <3>2. [memory EXCEPT !.nft = d] \in Config
        BY <2>3, WithDrop DEF SetTarget, Running
      <3>3. CallsOK'
        BY <1>0, <3>1, <3>2, ArriveTyped DEF Requests, Points
      <3> QED BY <2>3, <3>3 DEF SetTarget, TypeOK, CallsOK
    <2> QED BY <1>5, <2>1, <2>2, <2>3
  <1>6. ASSUME NEW r \in Requests, RequestStep(r) PROVE TypeOK'
    <2>1. CASE Resolved(r) \/ NotSet(r)
      <3>1. CallsOK'
        BY <1>0, <2>1, MoveTyped DEF Resolved, NotSet, Points
      <3> QED BY <2>1, <3>1 DEF Resolved, NotSet, TypeOK, CallsOK
    <2>2. CASE SetMemory(r)
      <3>1. CallsOK' /\ body[r] \in Config
        BY <1>0, <2>2, MoveTyped DEF SetMemory, Points, Running, CallInv
      <3>2. body[r].nft \in Drops /\ body[r].opt \in Options
        BY <3>1, ConfigFields
      <3>3. Kind(r) \in {"put", "set"}
        BY DEF Kind, Requests
      <3>4. choice' \in Choices
        BY <2>2, <3>2, <3>3 DEF SetMemory, Accept, TypeOK, Choices
      <3> QED BY <2>2, <3>1, <3>4 DEF SetMemory, Accept, TypeOK, CallsOK, Choices
    <2>3. CASE OpenFile(r)
      <3>1. CallsOK'
        BY <1>0, <2>3, MoveTyped DEF OpenFile, Points
      <3> QED BY <2>3, <3>1 DEF OpenFile, TypeOK, CallsOK
    <2>4. CASE WriteFile(r) \/ DiskFails(r)
      <3>1. AfterWrite(r) /\ at[r] # "idle"
        BY <2>4 DEF WriteFile, DiskFails
      <3>2. CallsOK'
        BY <1>0, <3>1, MoveTyped DEF AfterWrite, Points
      <3>3. file' \in Config \union {Empty, Garbled} /\ durable' \in BOOLEAN
        BY <2>4, <3>1 DEF WriteFile, DiskFails, TypeOK, Running, CallInv
      <3> QED BY <3>1, <3>2, <3>3 DEF AfterWrite, TypeOK, CallsOK
    <2>5. CASE Send(r)
      <3>1. CallsOK'
        BY <1>0, <2>5, MoveTyped DEF Send, Points
      <3>2. body[r].nft \in Drops
        BY <2>5, ConfigFields DEF Send, Running, CallInv
      <3>3. chan' \in Seq(Drops) /\ Len(chan') <= QueueCap
        BY <2>5, <3>2, ConfigAssumption DEF Send, TypeOK
      <3> QED BY <2>5, <3>1, <3>3 DEF Send, TypeOK, CallsOK
    <2>6. CASE GoAway(r)
      <3>1. CallsOK' /\ cut' \in BOOLEAN
        <4>1. CASE Move(r, "idle")
          BY <1>0, <2>6, <4>1, MoveTyped DEF GoAway, Points, TypeOK
        <4>2. CASE ~Move(r, "idle")
          BY <1>0, <2>6, <4>2 DEF GoAway, CallsOK, TypeOK
        <4> QED BY <4>1, <4>2
      <3> QED BY <2>6, <3>1 DEF GoAway, TypeOK, CallsOK
    <2> QED BY <1>6, <2>1, <2>2, <2>3, <2>4, <2>5, <2>6 DEF RequestStep
  <1>7. CASE LoopTakes
    <2>1. chan \in Seq(Drops) /\ chan # <<>> /\ Len(chan) <= QueueCap
      BY <1>7 DEF LoopTakes, TypeOK
    <2>2. Head(chan) \in Drops /\ Tail(chan) \in Seq(Drops) /\ Len(Tail(chan)) <= QueueCap
      BY <2>1, ConfigAssumption
    <2> QED BY <1>7, <2>2 DEF LoopTakes, TypeOK
  <1> QED BY <1>1, <1>2, <1>3, <1>4, <1>5, <1>6, <1>7 DEF Next, PageNext

------------------------------------------------------------------------------
(* What was accepted last.                                                 *)

Mid == {"open", "write", "send"}

\* While requests take turns, one at most is past the memory and not
\* finished; it writes what was accepted last, over an empty file, and the
\* file does not hold it yet.  A target set that has not come that far holds
\* the settings accepted last.
Alone == \A r, q \in Requests : at[r] \in Mid /\ at[q] \in Mid => r = q

TurnInv(r) ==
    /\ at[r] \in Mid => body[r].nft = choice.nft
    /\ at[r] \in {"open", "write"} => ~durable
    /\ at[r] = "write" => file = Empty
    /\ Kind(r) = "set" /\ at[r] \in {"resolve", "commit"} => body[r].opt = choice.opt
    /\ at[r] \in Mid => body[r].opt = choice.opt

OnDisk  == durable => file \in Config /\ file.nft = choice.nft /\ file.opt = choice.opt
Current == up => memory.nft = choice.nft /\ memory.opt = choice.opt

Turns == ~crossed => Alone /\ OnDisk /\ Current /\ \A r \in Requests : TurnInv(r)

LEMMA RunningInit == Init => Running
  BY DEF Init, Running, CallInv

LEMMA TurnsInit == Init => Turns
  BY DEF Init, Turns, Alone, OnDisk, Current, TurnInv, Mid

LEMMA MoveRunning ==
    ASSUME TypeOK, Running, NEW r \in Requests, NEW to \in Points, Move(r, to),
           at[r] # "idle", UNCHANGED up,
           to \in {"invalid", "send"} => Kind(r) = "set", to # "resolve"
    PROVE  \A q \in Requests : CallInv(q)'
  BY DEF TypeOK, Running, CallInv, Move, Kind

LEMMA ArriveRunning ==
    ASSUME TypeOK, Running, NEW r \in Requests, NEW p \in Points, NEW c \in Config,
           Arrive(r, p, c), UNCHANGED up,
           p \in {"resolve", "invalid", "send"} => Kind(r) = "set"
    PROVE  \A q \in Requests : CallInv(q)'
  BY DEF TypeOK, Running, CallInv, Arrive, Kind

LEMMA RunningStep ==
    ASSUME TypeOK, Running, [Next]_vars
    PROVE  Running'
  <1> USE DEF server, calls, history
  <1>1. CASE UNCHANGED vars \/ Tick
    BY <1>1 DEF vars, Tick, Running, CallInv
  <1>2. CASE Start
    <2>1. Timed(file) \in Config
      BY <1>2, TimedKeeps DEF Start
    <2> QED BY <1>2, <2>1 DEF Start, Running, CallInv
  <1>3. CASE Crash
    BY <1>3 DEF Crash, Running, CallInv
  <1>4. CASE LoopTakes
    BY <1>4 DEF LoopTakes, Running, CallInv
  <1>5. ASSUME NEW p \in Pages, LoadPage(p) \/ Save(p) \/ SetTarget(p) PROVE Running'
    <2>1. CASE LoadPage(p)
      BY <2>1 DEF LoadPage, Running, CallInv
    <2>2. CASE Save(p)
      <3>1. PICK c \in Edits(draft[p]) : Arrive(<<p, "put">>, "commit", c) \/ UNCHANGED calls
        BY <2>2 DEF Save
      <3>2. c \in Config
        BY <2>2, EditsTyped DEF Save, TypeOK
      <3>3. \A q \in Requests : CallInv(q)'
        <4>1. CASE Arrive(<<p, "put">>, "commit", c)
          BY <2>2, <3>2, <4>1, ArriveRunning DEF Save, Requests, Points
        <4>2. CASE UNCHANGED calls
          BY <2>2, <4>2 DEF Save, Running, CallInv
        <4> QED BY <3>1, <4>1, <4>2
      <3> QED BY <2>2, <3>3 DEF Save, Running
    <2>3. CASE SetTarget(p)
      <3>1. PICK d \in Drops : Arrive(<<p, "set">>, "resolve", [memory EXCEPT !.nft = d])
        BY <2>3 DEF SetTarget
      <3>2. [memory EXCEPT !.nft = d] \in Config
        BY <2>3, WithDrop DEF SetTarget, Running
      <3>3. \A q \in Requests : CallInv(q)'
        BY <2>3, <3>1, <3>2, ArriveRunning DEF SetTarget, Requests, Points, Kind
      <3> QED BY <2>3, <3>3 DEF SetTarget, Running
    <2> QED BY <1>5, <2>1, <2>2, <2>3
  <1>6. ASSUME NEW r \in Requests, RequestStep(r) PROVE Running'
    <2>1. /\ UNCHANGED up /\ at[r] # "idle" /\ up
          /\ up => memory' \in Config
      BY <1>6 DEF RequestStep, Resolved, NotSet, SetMemory, OpenFile, WriteFile, DiskFails,
                  AfterWrite, Send, GoAway, Running, CallInv
    <2>2. \A q \in Requests : CallInv(q)'
      <3>1. CASE Resolved(r) \/ NotSet(r)
        BY <2>1, <3>1, MoveRunning DEF Resolved, NotSet, Points, Running, CallInv
      <3>2. CASE SetMemory(r) \/ OpenFile(r) \/ Send(r)
        BY <2>1, <3>2, MoveRunning DEF SetMemory, OpenFile, Send, Points
      <3>3. CASE WriteFile(r) \/ DiskFails(r)
        BY <2>1, <3>3, MoveRunning DEF WriteFile, DiskFails, AfterWrite, Points
      <3>4. CASE GoAway(r)
        <4>1. CASE Move(r, "idle")
          BY <2>1, <4>1, MoveRunning DEF Points
        <4>2. CASE ~Move(r, "idle")
          BY <3>4, <4>2 DEF GoAway, Running, CallInv
        <4> QED BY <4>1, <4>2
      <3> QED BY <1>6, <3>1, <3>2, <3>3, <3>4 DEF RequestStep
    <2> QED BY <2>1, <2>2 DEF Running
  <1> QED BY <1>1, <1>2, <1>3, <1>4, <1>5, <1>6 DEF Next, PageNext

\* A request that only moves on, or ends, keeps the turns.
LEMMA MoveTurns ==
    ASSUME TypeOK, Turns, NEW r \in Requests, NEW to, Move(r, to),
           UNCHANGED <<up, memory, file, choice, durable, crossed>>,
           to \in {"idle", "invalid"} \/ (to = "commit" /\ at[r] = "resolve")
    PROVE  Turns'
  <1> SUFFICES ASSUME ~crossed PROVE Turns'
    BY DEF Turns
  <1>1. at' = [at EXCEPT ![r] = to] /\ \A q \in Requests \ {r} : body'[q] = body[q]
    BY DEF Move, TypeOK
  <1>2. \A q \in Requests \ {r} : at'[q] = at[q]
    BY <1>1 DEF TypeOK
  <1>3. at'[r] = to /\ (to # "idle" => body'[r] = body[r])
    BY <1>1 DEF Move, TypeOK
  <1>4. Alone'
    BY <1>2, <1>3 DEF Turns, Alone, Mid
  <1>5. ASSUME NEW q \in Requests PROVE TurnInv(q)'
    BY <1>1, <1>2, <1>3 DEF Turns, TurnInv, Mid, Kind
  <1> QED BY <1>4, <1>5 DEF Turns, OnDisk, Current

LEMMA ArriveTurns ==
    ASSUME TypeOK, Turns, NEW r \in Requests, NEW p, NEW c, Arrive(r, p, c),
           UNCHANGED <<up, memory, file, choice, durable, crossed>>,
           \/ p = "commit" /\ Kind(r) = "put"
           \/ p = "resolve" /\ (~crossed => c.opt = choice.opt)
    PROVE  Turns'
  <1> SUFFICES ASSUME ~crossed PROVE Turns'
    BY DEF Turns
  <1>1. \A q \in Requests \ {r} : at'[q] = at[q] /\ body'[q] = body[q]
    BY DEF Arrive, TypeOK
  <1>2. at'[r] = p /\ body'[r] = c
    BY DEF Arrive, TypeOK
  <1>3. Alone'
    BY <1>1, <1>2 DEF Turns, Alone, Mid
  <1>4. ASSUME NEW q \in Requests PROVE TurnInv(q)'
    BY <1>1, <1>2 DEF Turns, TurnInv, Mid, Kind
  <1> QED BY <1>3, <1>4 DEF Turns, OnDisk, Current

LEMMA TurnsStep ==
    ASSUME TypeOK, Running, Turns, [Next]_vars
    PROVE  Turns'
  <1> USE DEF server, calls, history
  <1>1. CASE UNCHANGED vars \/ Tick \/ LoopTakes \/ \E p \in Pages : LoadPage(p)
    <2>1. UNCHANGED <<up, memory, file, choice, durable, crossed, at, body>>
      BY <1>1 DEF vars, Tick, LoopTakes, LoadPage
    <2> QED BY <2>1 DEF Turns, Alone, OnDisk, Current, TurnInv
  <1>2. CASE Start
    <2>1. \A r \in Requests : at'[r] = "idle"
      BY <1>2 DEF Start, Running, CallInv
    <2>2. memory'.nft = file.nft /\ memory'.opt = file.opt /\ file' = file /\ file \in Config
      BY <1>2, TimedKeeps DEF Start
    <2>3. choice'.nft = file.nft /\ choice'.opt = file.opt
      BY <1>2 DEF Start, Turns, OnDisk, TypeOK
    <2> QED BY <2>1, <2>2, <2>3 DEF Turns, Alone, OnDisk, Current, TurnInv, Mid
  <1>3. CASE Crash
    <2>1. \A r \in Requests : at'[r] = "idle"
      BY <1>3 DEF Crash
    <2> QED BY <1>3, <2>1 DEF Crash, Turns, Alone, OnDisk, Current, TurnInv, Mid
  <1>4. ASSUME NEW p \in Pages, Save(p) PROVE Turns'
    <2>1. PICK c \in Edits(draft[p]) : Arrive(<<p, "put">>, "commit", c) \/ UNCHANGED calls
      BY <1>4 DEF Save
    <2>2. UNCHANGED <<up, memory, file, choice, durable, crossed>>
      BY <1>4 DEF Save
    <2>3. CASE Arrive(<<p, "put">>, "commit", c)
      BY <2>2, <2>3, ArriveTurns DEF Requests, Kind
    <2>4. CASE UNCHANGED calls
      BY <2>2, <2>4 DEF Turns, Alone, OnDisk, Current, TurnInv
    <2> QED BY <2>1, <2>3, <2>4
  <1>5. ASSUME NEW p \in Pages, SetTarget(p) PROVE Turns'
    <2>1. PICK d \in Drops : Arrive(<<p, "set">>, "resolve", [memory EXCEPT !.nft = d])
      BY <1>5 DEF SetTarget
    <2>2. ~crossed => [memory EXCEPT !.nft = d].opt = choice.opt
      BY <1>5, WithDrop DEF SetTarget, Running, Turns, Current
    <2> QED BY <1>5, <2>1, <2>2, ArriveTurns DEF SetTarget, Requests
  <1>6. ASSUME NEW r \in Requests, RequestStep(r) PROVE Turns'
    <2> SUFFICES ASSUME ~crossed' PROVE Turns'
      BY DEF Turns
    <2>1. CASE Resolved(r) \/ NotSet(r) \/ Send(r)
      BY <2>1, MoveTurns DEF Resolved, NotSet, Send
    <2>2. CASE GoAway(r)
      <3>1. CASE Move(r, "idle")
        BY <2>2, <3>1, MoveTurns DEF GoAway
      <3>2. CASE ~Move(r, "idle")
        BY <2>2, <3>2 DEF GoAway, Turns, Alone, OnDisk, Current, TurnInv
      <3> QED BY <3>1, <3>2
    <2>3. CASE SetMemory(r)
      <3>1. /\ ~crossed /\ \A q \in Requests \ {r} : ~Busy(q)
            /\ at[r] = "commit" /\ up /\ body[r] \in Config /\ file' = file
            /\ memory' = body[r] /\ durable' = FALSE
        BY <2>3 DEF SetMemory, Accept, Running, CallInv
      <3>2. \A q \in Requests \ {r} : at'[q] = at[q] /\ body'[q] = body[q]
        BY <2>3 DEF SetMemory, Move, TypeOK
      <3>3. at'[r] = "open" /\ body'[r] = body[r]
        BY <2>3 DEF SetMemory, Move, TypeOK
      <3>4. choice'.nft = body[r].nft /\ choice'.opt = body[r].opt
        <4>1. CASE Kind(r) = "set"
          <5>1. body[r].opt = choice.opt
            BY <3>1, <4>1 DEF Turns, TurnInv
          <5> QED BY <2>3, <4>1, <5>1 DEF SetMemory, Accept, TypeOK
        <4>2. CASE Kind(r) # "set"
          BY <2>3, <4>2 DEF SetMemory, Accept
        <4> QED BY <4>1, <4>2
      <3>5. Alone'
        BY <3>1, <3>2, <3>3 DEF Alone, Mid, Busy
      <3>6. ASSUME NEW q \in Requests PROVE TurnInv(q)'
        BY <3>1, <3>2, <3>3, <3>4 DEF TurnInv, Mid, Busy, Kind
      <3> QED BY <3>1, <3>4, <3>5, <3>6 DEF Turns, OnDisk, Current
    <2>4. CASE OpenFile(r) \/ WriteFile(r) \/ DiskFails(r)
      <3>1. /\ ~crossed /\ at[r] \in {"open", "write"} /\ ~durable
            /\ UNCHANGED <<up, memory, choice>>
        BY <2>4 DEF OpenFile, WriteFile, DiskFails, AfterWrite, Turns, TurnInv
      <3>2. \A q \in Requests \ {r} :
               at'[q] = at[q] /\ at[q] \notin Mid /\ body'[q] = body[q]
        BY <2>4, <3>1 DEF OpenFile, WriteFile, DiskFails, AfterWrite, Move, TypeOK,
                          Turns, Alone, Mid
      <3>3. /\ at'[r] \in {"write", "send", "idle"}
            /\ at'[r] # "idle" => body'[r] = body[r]
            /\ at'[r] = "write" => file' = Empty /\ ~durable'
        <4>1. CASE OpenFile(r)
          BY <3>1, <4>1 DEF OpenFile, Move, TypeOK, history
        <4>2. CASE WriteFile(r) \/ DiskFails(r)
          <5>1. AfterWrite(r)
            BY <4>2 DEF WriteFile, DiskFails
          <5>2. at' = [at EXCEPT ![r] = at'[r]] /\ at'[r] \in {"send", "idle"}
            BY <5>1 DEF AfterWrite, Move, TypeOK
          <5>3. at'[r] # "idle" => body'[r] = body[r]
            BY <5>1, <5>2 DEF AfterWrite, Move, TypeOK
          <5> QED BY <5>2, <5>3
        <4> QED BY <2>4, <4>1, <4>2
      <3>4. Alone'
        BY <3>2 DEF Alone, Mid
      <3>5. ASSUME NEW q \in Requests PROVE TurnInv(q)'
        BY <3>1, <3>2, <3>3 DEF Turns, TurnInv, Mid, Kind
      <3>6. OnDisk'
        <4>1. CASE ~durable'
          BY <4>1 DEF OnDisk
        <4>2. CASE durable'
          <5>1. WriteFile(r) /\ file = Empty
            BY <2>4, <3>1, <4>2 DEF OpenFile, DiskFails, WriteFile, Turns, TurnInv
          <5>2. file' = body[r] /\ body[r] \in Config
            BY <5>1 DEF WriteFile, Running, CallInv
          <5> QED BY <3>1, <5>2 DEF OnDisk, Turns, TurnInv, Mid
        <4> QED BY <4>1, <4>2
      <3> QED BY <3>1, <3>4, <3>5, <3>6 DEF Turns, Current
    <2> QED BY <1>6, <2>1, <2>2, <2>3, <2>4 DEF RequestStep
  <1> QED BY <1>1, <1>2, <1>3, <1>4, <1>5, <1>6 DEF Next, PageNext

------------------------------------------------------------------------------
(* What the loop was told.                                                 *)

Pending == \E r \in Requests : Kind(r) = "set" /\ at[r] \in Mid

\* When no target set is half done, the last message, or what the loop made
\* of it, is the drop accepted last, if a set or the start chose it.
Heard ==
    up /\ ~crossed /\ ~cut /\ choice.by # "put" /\ ~Pending =>
        /\ chan # <<>> => chan[Len(chan)] = choice.nft
        /\ chan = <<>> /\ loop # None => loop = choice.nft

\* The oldest message taken leaves the newest where it was.
LEMMA Shifted ==
    ASSUME NEW s \in Seq(Drops), NEW t \in Seq(Drops), s # <<>>,
           Len(t) = Len(s) - 1, \A i \in 1 .. Len(t) : t[i] = s[i + 1]
    PROVE  /\ t # <<>> => t[Len(t)] = s[Len(s)]
           /\ t = <<>> => s[1] = s[Len(s)]
  <1>1. Len(s) \in Nat /\ Len(t) \in Nat
    OBVIOUS
  <1>2. ASSUME t # <<>> PROVE t[Len(t)] = s[Len(s)]
    <2>1. Len(t) \in 1 .. Len(t)
      BY <1>1, <1>2
    <2>2. t[Len(t)] = s[Len(t) + 1]
      BY <2>1
    <2> QED BY <1>1, <2>2
  <1>3. ASSUME t = <<>> PROVE s[1] = s[Len(s)]
    <2>1. Len(s) = 1
      BY <1>1, <1>3
    <2> QED BY <2>1
  <1> QED BY <1>2, <1>3

LEMMA LastOfTail ==
    ASSUME NEW s \in Seq(Drops), s # <<>>
    PROVE  /\ Tail(s) # <<>> => Tail(s)[Len(Tail(s))] = s[Len(s)]
           /\ Tail(s) = <<>> => Head(s) = s[Len(s)]
  <1>1. Head(s) = s[1]
    OBVIOUS
  <1>2. /\ Tail(s) \in Seq(Drops) /\ Len(Tail(s)) = Len(s) - 1
        /\ \A i \in 1 .. Len(Tail(s)) : Tail(s)[i] = s[i + 1]
    BY HeadTailProperties
  <1>3. /\ Tail(s) # <<>> => Tail(s)[Len(Tail(s))] = s[Len(s)]
        /\ Tail(s) = <<>> => s[1] = s[Len(s)]
    BY <1>2, Shifted, Zenon
  <1> QED BY <1>1, <1>3

LEMMA HeardInit == Init => Heard
  BY DEF Init, Heard

\* A move that is no step of a target set past the memory.
LEMMA QuietMove ==
    ASSUME TypeOK, Heard, NEW r \in Requests, NEW to, Move(r, to),
           UNCHANGED <<up, loop, chan, choice, crossed, cut>>,
           Kind(r) = "put" \/ at[r] \notin Mid \/ to \in Mid
    PROVE  Heard'
  <1>1. Pending => Pending'
    <2>1. \A q \in Requests \ {r} : at'[q] = at[q]
      BY DEF Move, TypeOK
    <2>2. at'[r] = to
      BY DEF Move, TypeOK
    <2> QED BY <2>1, <2>2 DEF Pending, Kind
  <1> QED BY <1>1 DEF Heard

LEMMA HeardStep ==
    ASSUME TypeOK, Running, Turns, Heard, [Next]_vars
    PROVE  Heard'
  <1> USE DEF server, calls, history
  <1>1. CASE UNCHANGED vars \/ Tick \/ \E p \in Pages : LoadPage(p)
    <2>1. UNCHANGED <<up, loop, chan, choice, crossed, cut, at>>
      BY <1>1 DEF vars, Tick, LoadPage
    <2> QED BY <2>1 DEF Heard, Pending
  <1>2. CASE Start
    <2>1. chan' = <<>> /\ file \in Config
      BY <1>2 DEF Start, Running
    <2>2. choice'.nft = file.nft
      BY <1>2 DEF Start, Turns, OnDisk, TypeOK
    <2>3. loop' \in {file.nft, None}
      BY <1>2 DEF Start
    <2> QED BY <2>1, <2>2, <2>3 DEF Heard
  <1>3. CASE Crash
    BY <1>3 DEF Crash, Heard
  <1>4. CASE LoopTakes
    <2>1. UNCHANGED <<up, choice, crossed, cut, at>>
      BY <1>4 DEF LoopTakes
    <2>2. chan \in Seq(Drops) /\ chan # <<>> /\ loop' = Head(chan) /\ chan' = Tail(chan)
      BY <1>4 DEF LoopTakes, TypeOK
    <2>3. /\ chan' # <<>> => chan'[Len(chan')] = chan[Len(chan)]
          /\ chan' = <<>> => Head(chan) = chan[Len(chan)]
      BY <2>2, LastOfTail
    <2> QED BY <2>1, <2>2, <2>3 DEF Heard, Pending
  <1>5. ASSUME NEW p \in Pages, Save(p) \/ SetTarget(p) PROVE Heard'
    <2>1. UNCHANGED <<up, loop, chan, choice, crossed, cut>>
      BY <1>5 DEF Save, SetTarget
    <2>2. \A q \in Requests : at[q] \in Mid => at'[q] = at[q]
      BY <1>5 DEF Save, SetTarget, Arrive, Mid, TypeOK
    <2> QED BY <2>1, <2>2 DEF Heard, Pending
  <1>6. ASSUME NEW r \in Requests, RequestStep(r) PROVE Heard'
    <2>0. Kind(r) \in {"put", "set"}
      BY DEF Requests, Kind
    <2>1. CASE Resolved(r) \/ NotSet(r) \/ OpenFile(r)
      BY <2>1, QuietMove DEF Resolved, NotSet, OpenFile, Mid
    <2>2. CASE SetMemory(r)
      <3>1. CASE Kind(r) = "set"
        <4>1. at'[r] = "open"
          BY <2>2 DEF SetMemory, Move, TypeOK
        <4>2. Pending'
          BY <3>1, <4>1 DEF Pending, Mid, Kind
        <4> QED BY <4>2 DEF Heard
      <3>2. CASE Kind(r) = "put"
        <4>1. \A q \in Requests : Kind(q) = "set" => at'[q] = at[q]
          BY <2>2, <3>2 DEF SetMemory, Move, TypeOK
        <4>2. Pending => Pending'
          BY <4>1 DEF Pending, Kind
        <4>3. /\ choice'.by # "put" => choice'.nft = choice.nft /\ choice'.by = choice.by
              /\ UNCHANGED <<up, loop, chan>> /\ cut' = cut /\ (crossed => crossed')
          BY <2>2, <3>2 DEF SetMemory, Accept, TypeOK
        <4> QED BY <4>2, <4>3 DEF Heard
      <3> QED BY <2>0, <3>1, <3>2
    <2>3. CASE WriteFile(r) \/ DiskFails(r)
      <3>1. AfterWrite(r) /\ at[r] \in Mid
        BY <2>3 DEF WriteFile, DiskFails, Mid
      <3>2. CASE Kind(r) = "set" /\ r \in orphan
        BY <3>1, <3>2 DEF AfterWrite, Heard
      <3>3. CASE Kind(r) = "put" \/ r \notin orphan
        <4>1. UNCHANGED <<up, loop, chan, choice, crossed, cut>>
          BY <3>1, <3>3 DEF AfterWrite, TypeOK
        <4> QED BY <2>0, <3>1, <3>3, <4>1, QuietMove DEF AfterWrite, Mid
      <3> QED BY <2>0, <3>2, <3>3
    <2>4. CASE Send(r)
      <3>1. chan \in Seq(Drops) /\ chan' = Append(chan, body[r].nft)
        BY <2>4 DEF Send, TypeOK
      <3>2. chan' # <<>> /\ chan'[Len(chan')] = body[r].nft
        BY <3>1
      <3>3. ~crossed => body[r].nft = choice.nft
        BY <2>4 DEF Send, Turns, TurnInv, Mid
      <3> QED BY <2>4, <3>2, <3>3 DEF Send, Heard
    <2>5. CASE GoAway(r)
      <3>1. CASE at[r] = "send"
        BY <2>5, <3>1 DEF GoAway, Heard
      <3>2. CASE at[r] \in {"open", "write"}
        BY <2>5, <3>2 DEF GoAway, Heard, Pending
      <3>3. CASE at[r] \in {"resolve", "commit"}
        <4>1. cut' = cut
          BY <2>5, <3>3 DEF GoAway, TypeOK
        <4> QED BY <2>5, <3>3, <4>1, QuietMove DEF GoAway, Mid
      <3> QED BY <2>5, <3>1, <3>2, <3>3 DEF GoAway
    <2> QED BY <1>6, <2>1, <2>2, <2>3, <2>4, <2>5 DEF RequestStep
  <1> QED BY <1>1, <1>2, <1>3, <1>4, <1>5, <1>6 DEF Next, PageNext

------------------------------------------------------------------------------
(* What validate() has asked.                                              *)

\* Everything validate() asks but the time.
Sound(c) == WellFormed(c) /\ CanBroadcast(c) /\ DelegatedFits(c)

\* What requests hold is sound, and refused for its time only.
BodiesSound ==
    \A r \in Requests :
        /\ body[r] \in Config => Sound(body[r])
        /\ at[r] = "invalid" => ~TriggerAhead(body[r])

SoundInv ==
    /\ memory \in Config => Sound(memory)
    /\ file \in Config => Sound(file)
    /\ BodiesSound

LEMMA SoundByOptions ==
    ASSUME NEW c, NEW d, c.opt = d.opt, Sound(c)
    PROVE  Sound(d)
  BY DEF Sound, WellFormed, CanBroadcast, DelegatedFits

LEMMA ValidIsSound ==
    ASSUME NEW c
    PROVE  Valid(c) <=> Sound(c) /\ TriggerAhead(c)
  BY DEF Valid, Sound

\* What is not ahead is overdue, and stays so.
LEMMA OverdueOnly ==
    ASSUME TypeOK, NEW c \in Config, ~TriggerAhead(c)
    PROVE  Overdue(c)
  BY DEF TypeOK, Config, Times, TriggerAhead, Overdue

LEMMA StaysOverdue ==
    ASSUME TypeOK, NEW c \in Config, ~TriggerAhead(c), now' \in {now, now + 1}
    PROVE  ~TriggerAhead(c)'
  BY DEF TypeOK, Config, Times, TriggerAhead

LEMMA MoveSound ==
    ASSUME TypeOK, BodiesSound, NEW r \in Requests, NEW to, Move(r, to), now' = now,
           to = "invalid" => ~TriggerAhead(body[r])
    PROVE  BodiesSound'
  <1>1. \A q \in Requests \ {r} : at'[q] = at[q] /\ body'[q] = body[q]
    BY DEF Move, TypeOK
  <1>2. at'[r] = to /\ body'[r] = IF to = "idle" THEN None ELSE body[r]
    BY DEF Move, TypeOK
  <1>3. None \notin Config
    BY ConfigAssumption
  <1> QED BY <1>1, <1>2, <1>3 DEF BodiesSound, TriggerAhead

LEMMA ArriveSound ==
    ASSUME TypeOK, BodiesSound, NEW r \in Requests, NEW p, NEW c, Arrive(r, p, c),
           now' = now, p # "invalid", Sound(c)
    PROVE  BodiesSound'
  <1>1. \A q \in Requests \ {r} : at'[q] = at[q] /\ body'[q] = body[q]
    BY DEF Arrive, TypeOK
  <1>2. at'[r] = p /\ body'[r] = c
    BY DEF Arrive, TypeOK
  <1> QED BY <1>1, <1>2 DEF BodiesSound, TriggerAhead

LEMMA SoundInit == Init => SoundInv
  <1> SUFFICES ASSUME Init PROVE SoundInv
    OBVIOUS
  <1>1. None \notin Config
    BY ConfigAssumption
  <1>2. Sound(file)
    BY ValidIsSound DEF Init
  <1> QED BY <1>1, <1>2 DEF Init, SoundInv, BodiesSound

LEMMA SoundStep ==
    ASSUME TypeOK, Running, SoundInv, [Next]_vars
    PROVE  SoundInv'
  <1> USE DEF server, calls
  <1>1. CASE UNCHANGED vars \/ Tick \/ LoopTakes \/ \E p \in Pages : LoadPage(p)
    <2>1. UNCHANGED <<memory, file, at, body>> /\ now' \in {now, now + 1}
      BY <1>1 DEF vars, Tick, LoopTakes, LoadPage
    <2>2. \A r \in Requests : at[r] = "invalid" => ~TriggerAhead(body[r])'
      BY <2>1, StaysOverdue DEF SoundInv, BodiesSound, Running, CallInv
    <2> QED BY <2>1, <2>2 DEF SoundInv, BodiesSound, TriggerAhead
  <1>2. CASE Start
    <2>1. Sound(file) /\ Timed(file).opt = file.opt
      BY <1>2, ValidIsSound, TimedKeeps DEF Start
    <2>2. Sound(Timed(file))
      BY <2>1, SoundByOptions
    <2> QED BY <1>2, <2>1, <2>2 DEF Start, SoundInv, BodiesSound, TriggerAhead
  <1>3. CASE Crash
    <2>1. None \notin Config
      BY ConfigAssumption
    <2> QED BY <1>3, <2>1 DEF Crash, SoundInv, BodiesSound
  <1>4. ASSUME NEW p \in Pages, Save(p) PROVE SoundInv'
    <2>1. PICK c \in Edits(draft[p]) :
             (Valid(c) /\ Arrive(<<p, "put">>, "commit", c)) \/ UNCHANGED calls
      BY <1>4 DEF Save
    <2>2. UNCHANGED <<now, memory, file>>
      BY <1>4 DEF Save
    <2>3. BodiesSound'
      <3>1. CASE UNCHANGED calls
        BY <2>2, <3>1 DEF SoundInv, BodiesSound, TriggerAhead
      <3>2. CASE Valid(c) /\ Arrive(<<p, "put">>, "commit", c)
        BY <2>2, <3>2, ValidIsSound, ArriveSound DEF SoundInv, Requests
      <3> QED BY <2>1, <3>1, <3>2
    <2> QED BY <2>2, <2>3 DEF SoundInv
  <1>5. ASSUME NEW p \in Pages, SetTarget(p) PROVE SoundInv'
    <2>1. PICK d \in Drops : Arrive(<<p, "set">>, "resolve", [memory EXCEPT !.nft = d])
      BY <1>5 DEF SetTarget
    <2>2. Sound(memory) /\ [memory EXCEPT !.nft = d].opt = memory.opt
      BY <1>5, WithDrop DEF SetTarget, Running, SoundInv
    <2>3. Sound([memory EXCEPT !.nft = d])
      BY <2>2, SoundByOptions
    <2>4. BodiesSound'
      BY <1>5, <2>1, <2>3, ArriveSound DEF SetTarget, SoundInv, Requests
    <2> QED BY <1>5, <2>4 DEF SetTarget, SoundInv
  <1>6. ASSUME NEW r \in Requests, RequestStep(r) PROVE SoundInv'
    <2>1. at[r] # "idle" => Sound(body[r])
      BY DEF Running, CallInv, SoundInv, BodiesSound
    <2>2. BodiesSound'
      <3>1. CASE Resolved(r)
        <4>1. ~Valid(body[r]) => ~TriggerAhead(body[r])
          BY <2>1, <3>1, ValidIsSound DEF Resolved
        <4> QED BY <3>1, <4>1, MoveSound DEF Resolved, SoundInv
      <3>2. CASE NotSet(r) \/ SetMemory(r) \/ OpenFile(r) \/ Send(r)
        BY <3>2, MoveSound DEF NotSet, SetMemory, OpenFile, Send, SoundInv
      <3>3. CASE WriteFile(r) \/ DiskFails(r)
        BY <3>3, MoveSound DEF WriteFile, DiskFails, AfterWrite, SoundInv
      <3>4. CASE GoAway(r)
        <4>1. CASE Move(r, "idle")
          BY <3>4, <4>1, MoveSound DEF GoAway, SoundInv
        <4>2. CASE ~Move(r, "idle")
          BY <3>4, <4>2 DEF GoAway, SoundInv, BodiesSound, TriggerAhead
        <4> QED BY <4>1, <4>2
      <3> QED BY <1>6, <3>1, <3>2, <3>3, <3>4 DEF RequestStep
    <2>3. memory' = memory \/ (memory' = body[r] /\ at[r] # "idle")
      BY <1>6 DEF RequestStep, Resolved, NotSet, SetMemory, OpenFile, WriteFile, DiskFails,
                  AfterWrite, Send, GoAway
    <2>4. file' \in {file, Empty, Garbled} \/ (file' = body[r] /\ at[r] # "idle")
      BY <1>6 DEF RequestStep, Resolved, NotSet, SetMemory, OpenFile, WriteFile, DiskFails,
                  AfterWrite, Send, GoAway
    <2>5. Empty \notin Config /\ Garbled \notin Config
      BY ConfigAssumption
    <2> QED BY <2>1, <2>2, <2>3, <2>4, <2>5 DEF SoundInv
  <1> QED BY <1>1, <1>2, <1>3, <1>4, <1>5, <1>6 DEF Next, PageNext

------------------------------------------------------------------------------
(* Theorems.                                                               *)

IInv == TypeOK /\ Running /\ Turns

LEMMA StoreInductive == Spec => []IInv
  <1>1. Init => IInv
    BY TypeInit, RunningInit, TurnsInit DEF IInv
  <1>2. IInv /\ [Next]_vars => IInv'
    BY TypeStep, RunningStep, TurnsStep DEF IInv
  <1> QED BY <1>1, <1>2, PTL DEF Spec

\* Every variable of the configuration store keeps its type; the control
\* channel never holds more than its slots (main.rs:208).
THEOREM StoreTypeCorrect == Spec => []TypeOK
  <1>1. IInv => TypeOK
    BY DEF IInv
  <1> QED BY <1>1, StoreInductive, PTL

\* Whatever pages save and set in turn, memory and file agree with what was
\* accepted last (api.rs:178-219, 399-490).
THEOREM SavesStickCorrect == Spec => []SavesStick
  <1>1. IInv => SavesStick
    BY DEF IInv, Turns, OnDisk, Current, SavesStick, Calm
  <1> QED BY <1>1, StoreInductive, PTL

\* The drop named by the configuration in memory is the one the loop mints,
\* unless a save named it (ConfigPanel.tsx:360) or a target set was cut off
\* (api.rs:474-490).
THEOREM LoopFollowsConfigCorrect == Spec => []LoopFollowsConfig
  <1>1. IInv /\ Heard => LoopFollowsConfig
    BY DEF IInv, Turns, Current, Heard, Pending, Mid, LoopFollowsConfig, Calm, Quiet
  <1>2. Init => Heard
    BY HeardInit
  <1>3. IInv /\ Heard /\ [Next]_vars => Heard'
    BY HeardStep DEF IInv
  <1> QED BY <1>1, <1>2, <1>3, StoreInductive, PTL DEF Spec

\* A restart keeps what was written (main.rs:69, api.rs:386-398).
THEOREM RestartKeepsChoiceCorrect == Spec => RestartKeepsChoice
  <1>1. IInv /\ [Next]_vars
          => [ ~up /\ up' /\ durable /\ ~crossed
                 => memory'.opt = choice.opt /\ memory'.nft = choice.nft
                    /\ loop' \in {choice.nft, None} ]_vars
    <2> SUFFICES ASSUME IInv, [Next]_vars, ~up, up', durable, ~crossed
                 PROVE  memory'.opt = choice.opt /\ memory'.nft = choice.nft
                        /\ loop' \in {choice.nft, None}
      OBVIOUS
    <2>1. \A r \in Requests : at[r] = "idle"
      BY DEF IInv, Running, CallInv
    <2>2. Start
      BY <2>1 DEF Next, vars, server, Crash, Tick, PageNext, LoadPage, Save, SetTarget, LoopTakes,
               RequestStep, Resolved, NotSet, SetMemory, OpenFile, WriteFile, DiskFails,
               Send, GoAway, AfterWrite
    <2>3. memory'.nft = file.nft /\ memory'.opt = file.opt
      BY <2>2, TimedKeeps DEF Start
    <2> QED BY <2>2, <2>3 DEF Start, IInv, Turns, OnDisk
  <1> QED BY <1>1, StoreInductive, PTL DEF Spec, RestartKeepsChoice

\* But for its start time, whatever the program runs with, keeps or is about to
\* write passes validate() (config.rs:584-608, main.rs:166-177).
THEOREM OnlyTimeInvalidatesCorrect == Spec => []OnlyTimeInvalidates
  <1>1. Init => SoundInv
    BY SoundInit
  <1>2. IInv /\ SoundInv /\ [Next]_vars => SoundInv'
    BY SoundStep DEF IInv
  <1>3. IInv /\ SoundInv => OnlyTimeInvalidates
    <2> SUFFICES ASSUME IInv, SoundInv PROVE OnlyTimeInvalidates
      OBVIOUS
    <2>1. ASSUME NEW c \in Config, Sound(c) PROVE Valid([c EXCEPT !.trig = 0])
      <3> DEFINE d == [c EXCEPT !.trig = 0]
      <3>1. d.opt = c.opt /\ d.trig = 0
        BY DEF Config
      <3>2. Sound(d) /\ TriggerAhead(d)
        BY <2>1, <3>1, SoundByOptions DEF TriggerAhead
      <3> HIDE DEF d
      <3>3. Valid(d)
        BY <3>2, ValidIsSound
      <3> QED BY <3>3 DEF d
    <2>2. ASSUME NEW r \in Requests, at[r] = "invalid" PROVE Overdue(body[r])
      BY <2>2, OverdueOnly DEF IInv, Running, CallInv, SoundInv, BodiesSound
    <2> QED BY <2>1, <2>2 DEF OnlyTimeInvalidates, SoundInv, BodiesSound
  <1> QED BY <1>1, <1>2, <1>3, StoreInductive, PTL DEF Spec
==============================================================================
