----------------------------- MODULE ConfigStore -----------------------------
(***************************************************************************)
(* The configuration (config.rs, and put_config and post_target_set of     *)
(* api.rs): a copy in memory behind a lock, config.toml on disk, the drop  *)
(* the control loop mints, and the copies that open pages edit.            *)
(*                                                                         *)
(* PUT /api/config writes a whole configuration, the page's own copy.      *)
(* POST /api/target/set writes back the configuration it read before its   *)
(* awaits, with another drop, and then sends that drop to the loop.  Both  *)
(* set the memory under the lock and write the file outside it, in a       *)
(* thread that a client going away does not stop.  At its start the        *)
(* program reads the file, refuses what validate() refuses, and replaces a *)
(* trigger time of 0 in memory by the start of the drop.                   *)
(*                                                                         *)
(* A definition named Bug... is a faulty variant of the one that follows   *)
(* it.  Next uses none of them.                                            *)
(***************************************************************************)
EXTENDS Integers, Sequences

CONSTANTS
    Pages,       \* open tabs of the control panel
    Drops,       \* NFT contracts
    Starts,      \* when each drop starts, after 0
    Ends,        \* when it ends
    Options,     \* the other settings, as OptionFields records
    None,        \* no drop, no configuration
    Empty,       \* a file that was truncated
    Garbled,     \* a file that two writers mixed, or that is cut short
    QueueCap,    \* slots of the control channel
    MaxTime,     \* bound on the clock
    MaxCalls,    \* bound on the requests of a behaviour
    MaxCrashes   \* bound on the crashes of a behaviour

Times  == 0 .. MaxTime
Modes  == {"timestamp", "poll_state"}

\* What validate() and the routes tell apart; malformed stands for every
\* early return of validate() that no other field decides.
OptionFields == [seadrop : BOOLEAN, delegated : BOOLEAN, rpcs : BOOLEAN,
                 sequencer : BOOLEAN, race : BOOLEAN, malformed : BOOLEAN]
Config == [nft : Drops, mode : Modes, trig : Times, opt : Options]

ASSUME ConfigAssumption ==
    /\ Starts \in [Drops -> Times \ {0}] /\ Ends \in [Drops -> Times]
    /\ Options \subseteq OptionFields
    /\ None \notin Drops \union Config
    /\ Empty \notin Config /\ Garbled \notin Config
    /\ QueueCap \in Nat \ {0} /\ MaxTime \in Nat /\ MaxCalls \in Nat /\ MaxCrashes \in Nat

VARIABLES
    now,      \* the clock
    up,       \* whether the program runs
    memory,   \* AppState.config
    file,     \* config.toml
    loop,     \* the drop the control loop mints
    chan,     \* SetTarget messages on their way to it
    draft,    \* per page: ConfigPanel's copy
    at,       \* per request: its next step
    body,     \* per request: the configuration it writes
    orphan,   \* requests whose client went away during their write
    begun,    \* how many requests were made
    crashes,  \* how many crashes there were
    \* History.
    choice,   \* the settings accepted last, and who chose the drop
    durable,  \* whether the file was written since
    crossed,  \* whether two requests overlapped since the start
    cut       \* whether the last target set never told the loop

server  == <<up, memory, file, loop, chan>>
calls   == <<at, body, orphan, begun>>
history == <<choice, durable, crossed, cut>>
vars    == <<now, server, draft, calls, crashes, history>>

\* A page has at most one save and one target set under way: it disables the
\* buttons meanwhile.
Requests == Pages \X {"put", "set"}
Points   == {"idle", "resolve", "invalid", "commit", "open", "write", "send"}
Kind(r)  == r[2]

TypeOK ==
    /\ now \in Times /\ up \in BOOLEAN
    /\ memory \in Config \union {None}
    /\ file \in Config \union {Empty, Garbled}
    /\ loop \in Drops \union {None}
    /\ chan \in Seq(Drops) /\ Len(chan) <= QueueCap
    /\ draft \in [Pages -> Config \union {None}]
    /\ at \in [Requests -> Points]
    /\ body \in [Requests -> Config \union {None}]
    /\ orphan \subseteq Requests
    /\ begun \in 0 .. MaxCalls /\ crashes \in 0 .. MaxCrashes
    /\ choice \in [nft : Drops, opt : Options, by : {"start", "put", "set"}]
    /\ durable \in BOOLEAN /\ crossed \in BOOLEAN /\ cut \in BOOLEAN

------------------------------------------------------------------------------
(* validate().                                                             *)

WellFormed(c) == ~c.opt.malformed

\* Racing needs somebody to race to; without race_mode an empty list of
\* endpoints passes.
CanBroadcast(c) == c.opt.race => c.opt.sequencer \/ c.opt.rpcs

DelegatedFits(c) == c.opt.delegated => c.opt.seadrop

TriggerAhead(c) == c.mode = "timestamp" /\ c.trig # 0 => now < c.trig

Valid(c) == WellFormed(c) /\ CanBroadcast(c) /\ TriggerAhead(c) /\ DelegatedFits(c)

------------------------------------------------------------------------------
(* Start and crash.                                                        *)

Init ==
    /\ now = 0 /\ up = FALSE
    /\ memory = None /\ loop = None /\ chan = <<>>
    /\ file \in {c \in Config : c.trig = 0 /\ Valid(c)}
    /\ draft = [p \in Pages |-> None]
    /\ at = [r \in Requests |-> "idle"]
    /\ body = [r \in Requests |-> None]
    /\ orphan = {} /\ begun = 0 /\ crashes = 0
    /\ choice = [nft |-> file.nft, opt |-> file.opt, by |-> "start"]
    /\ durable = TRUE /\ crossed = FALSE /\ cut = FALSE

\* A SeaDrop start is known on-chain: 0 means to take it.
Timed(c) ==
    IF c.opt.seadrop /\ c.trig = 0
    THEN [c EXCEPT !.mode = "timestamp", !.trig = Starts[c.nft]]
    ELSE c

\* load(), then http_rpc_urls[0], which panics for an empty list.  Whatever
\* else fails (the drop's data, the keys, the port) leaves it down; systemd
\* tries again.
Start ==
    /\ ~up
    /\ file \in Config /\ Valid(file) /\ file.opt.rpcs
    /\ up' = TRUE
    /\ memory' = Timed(file)
    /\ loop' = IF file.opt.seadrop THEN file.nft ELSE None
    /\ choice' = IF durable /\ ~crossed
                 THEN [choice EXCEPT !.by = "start"]
                 ELSE [nft |-> file.nft, opt |-> file.opt, by |-> "start"]
    /\ durable' = TRUE /\ crossed' = FALSE /\ cut' = FALSE
    /\ UNCHANGED <<now, file, chan, draft, calls, crashes>>

\* The process dies, with the requests under way.  Pages stay open.
Crash ==
    /\ up /\ crashes < MaxCrashes
    /\ crashes' = crashes + 1
    /\ up' = FALSE /\ memory' = None /\ loop' = None /\ chan' = <<>>
    /\ at' = [r \in Requests |-> "idle"]
    /\ body' = [r \in Requests |-> None]
    /\ orphan' = {}
    /\ UNCHANGED <<now, file, draft, begun, history>>

Tick ==
    /\ now < MaxTime
    /\ now' = now + 1
    /\ UNCHANGED <<server, draft, calls, crashes, history>>

------------------------------------------------------------------------------
(* The page.                                                               *)

\* ConfigPanel takes its copy once, when the page has loaded the
\* configuration, and never again.
LoadPage(p) ==
    /\ up
    /\ \A r \in Requests : r[1] = p => at[r] = "idle"
    /\ draft' = [draft EXCEPT ![p] = memory]
    /\ UNCHANGED <<now, server, calls, crashes, history>>

\* The forms change one thing at a time.
Edits(c) ==
    {[c EXCEPT !.nft = d] : d \in Drops} \union {[c EXCEPT !.opt = o] : o \in Options}
        \union {[c EXCEPT !.mode = x[1], !.trig = x[2]] : x \in Modes \X Times}

Arrive(r, point, c) ==
    /\ up /\ begun < MaxCalls
    /\ at[r] = "idle"
    /\ begun' = begun + 1
    /\ at' = [at EXCEPT ![r] = point]
    /\ body' = [body EXCEPT ![r] = c]
    /\ UNCHANGED orphan

BugSave(p) ==
    /\ draft[p] # None
    /\ \E c \in Edits(draft[p]) :
          /\ draft' = [draft EXCEPT ![p] = c]
          /\ Arrive(<<p, "put">>, "commit", c)
    /\ UNCHANGED <<now, server, crashes, history>>

\* A save of the page's copy; a copy validate() refuses is answered with 400.
Save(p) ==
    /\ draft[p] # None
    /\ \E c \in Edits(draft[p]) :
          /\ draft' = [draft EXCEPT ![p] = c]
          /\ IF Valid(c)
             THEN Arrive(<<p, "put">>, "commit", c)
             ELSE up /\ at[<<p, "put">>] = "idle" /\ UNCHANGED calls
    /\ UNCHANGED <<now, server, crashes, history>>

\* The route reads the configuration before it asks the chain about the drop.
BugSetTarget(p) ==
    /\ draft[p] # None /\ draft[p].opt.seadrop
    /\ \E d \in Drops : Arrive(<<p, "set">>, "resolve", [draft[p] EXCEPT !.nft = d])
    /\ UNCHANGED <<now, server, draft, crashes, history>>

SetTarget(p) ==
    /\ up /\ memory.opt.seadrop
    /\ \E d \in Drops : Arrive(<<p, "set">>, "resolve", [memory EXCEPT !.nft = d])
    /\ UNCHANGED <<now, server, draft, crashes, history>>

------------------------------------------------------------------------------
(* The routes.                                                             *)

Move(r, to) ==
    /\ at' = [at EXCEPT ![r] = to]
    /\ body' = [body EXCEPT ![r] = IF to = "idle" THEN None ELSE @]
    /\ orphan' = IF to = "idle" THEN orphan \ {r} ELSE orphan
    /\ UNCHANGED begun

Live(d) == Starts[d] <= now /\ now <= Ends[d]

\* The drop is live and takes the fee recipient: it is settable.
Resolved(r) ==
    /\ at[r] = "resolve" /\ Live(body[r].nft)
    /\ Move(r, IF Valid(body[r]) THEN "commit" ELSE "invalid")
    /\ UNCHANGED <<now, server, draft, crashes, history>>

\* It is not, or the read failed; or the answer that the configuration with
\* it is invalid.
NotSet(r) ==
    /\ at[r] \in {"resolve", "invalid"}
    /\ Move(r, "idle")
    /\ UNCHANGED <<now, server, draft, crashes, history>>

\* What a request has read or written and not finished.
Busy(r) == at[r] \in {"resolve", "open", "write", "send"} \/ (at[r] = "commit" /\ Kind(r) = "set")

Accept(r) ==
    /\ choice' = IF Kind(r) = "set"
                 THEN [choice EXCEPT !.nft = body[r].nft, !.by = "set"]
                 ELSE [nft |-> body[r].nft, opt |-> body[r].opt,
                       by |-> IF body[r].nft = choice.nft THEN choice.by ELSE "put"]
    /\ durable' = FALSE
    /\ crossed' = (crossed \/ \E q \in Requests \ {r} : Busy(q))
    /\ cut' = (cut /\ Kind(r) = "put")

SetMemory(r) ==
    /\ at[r] = "commit"
    /\ memory' = body[r]
    /\ Accept(r)
    /\ Move(r, "open")
    /\ UNCHANGED <<now, up, file, loop, chan, draft, crashes>>

\* tokio::fs::write truncates and then writes.
OpenFile(r) ==
    /\ at[r] = "open"
    /\ file' = Empty
    /\ Move(r, "write")
    /\ UNCHANGED <<now, up, memory, loop, chan, draft, crashes, history>>

\* The end of the write, good or bad.  A set without a client is dropped here.
AfterWrite(r) ==
    /\ Move(r, IF Kind(r) = "set" /\ r \notin orphan THEN "send" ELSE "idle")
    /\ cut' = (cut \/ (Kind(r) = "set" /\ r \in orphan))
    /\ UNCHANGED <<now, up, memory, loop, chan, draft, crashes, choice, crossed>>

\* Another writer may have written meanwhile: the rest of its text stays if
\* it was longer.
BugWriteFile(r) ==
    /\ at[r] = "write"
    /\ file' = IF Kind(r) = "set" /\ loop # None THEN [body[r] EXCEPT !.nft = loop] ELSE body[r]
    /\ durable' = TRUE
    /\ AfterWrite(r)

WriteFile(r) ==
    /\ at[r] = "write"
    /\ file' \in {body[r]} \union (IF file = Empty THEN {} ELSE {Garbled})
    /\ durable' = TRUE
    /\ AfterWrite(r)

\* The file cannot be opened, or the disk is full.  A PUT answers with an
\* error, a target set goes on.
DiskFails(r) ==
    /\ at[r] \in {"open", "write"}
    /\ file' \in IF at[r] = "open" THEN {file} ELSE {file, Garbled}
    /\ UNCHANGED durable
    /\ AfterWrite(r)

BugTrySend(r) ==
    /\ at[r] = "send"
    /\ chan' = IF Len(chan) < QueueCap THEN Append(chan, body[r].nft) ELSE chan
    /\ Move(r, "idle")
    /\ UNCHANGED <<now, up, memory, file, loop, draft, crashes, history>>

Send(r) ==
    /\ at[r] = "send" /\ Len(chan) < QueueCap
    /\ chan' = Append(chan, body[r].nft)
    /\ Move(r, "idle")
    /\ UNCHANGED <<now, up, memory, file, loop, draft, crashes, history>>

LoopTakes ==
    /\ up /\ chan # <<>>
    /\ loop' = Head(chan)
    /\ chan' = Tail(chan)
    /\ UNCHANGED <<now, up, memory, file, draft, calls, crashes, history>>

\* The client goes away and the handler is dropped where it waits.  A write
\* that has begun goes on without it.
GoAway(r) ==
    /\ \/ /\ at[r] \in {"resolve", "commit", "send"}
          /\ Move(r, "idle")
          /\ cut' = (cut \/ at[r] = "send")
       \/ /\ at[r] \in {"open", "write"}
          /\ orphan' = orphan \union {r}
          /\ UNCHANGED <<at, body, begun, cut>>
    /\ UNCHANGED <<now, server, draft, crashes, choice, durable, crossed>>

PageNext == \E p \in Pages : LoadPage(p) \/ Save(p) \/ SetTarget(p)

RequestStep(r) ==
    \/ Resolved(r) \/ NotSet(r) \/ SetMemory(r) \/ OpenFile(r)
    \/ WriteFile(r) \/ DiskFails(r) \/ Send(r) \/ GoAway(r)

Next ==
    \/ Start \/ Crash \/ Tick \/ PageNext \/ LoopTakes
    \/ \E r \in Requests : RequestStep(r)

Spec == Init /\ [][Next]_vars

------------------------------------------------------------------------------
(* Safety.                                                                 *)

\* No request has changed the memory and not finished.
Quiet == \A r \in Requests : at[r] \notin {"open", "write", "send"}
Calm  == up /\ Quiet /\ ~crossed

\* What was accepted last is what the program runs with and, once written,
\* what the file holds, whoever saved it, whatever was refused, failed or was
\* cut off, and across restarts; requests take turns (api.rs:178-219, 399-490).
SavesStick ==
    Calm => /\ memory.nft = choice.nft /\ memory.opt = choice.opt
            /\ durable => file \in Config /\ file.nft = choice.nft /\ file.opt = choice.opt

\* The drop that the configuration in memory names, which a page that loads now
\* shows as its active target, is the one the loop mints, as soon as it has
\* heard every message and requests take turns, whatever disk or target set
\* failed.  It says nothing after a save that named another drop, which needs a
\* restart (ConfigPanel.tsx:360), after a target set cut off before its message
\* (api.rs:474-490), and of the copy that a page took earlier
\* (App.tsx:261-265, ConfigPanel.tsx:15).
LoopFollowsConfig ==
    Calm /\ chan = <<>> /\ ~cut /\ loop # None /\ choice.by # "put" => loop = memory.nft

\* A crash at any point after the write loses nothing: the next start mints
\* the drop and uses the settings accepted last (main.rs:69, api.rs:386-398).
RestartKeepsChoice ==
    [][ ~up /\ up' /\ durable /\ ~crossed
          => memory'.opt = choice.opt /\ memory'.nft = choice.nft
             /\ loop' \in {choice.nft, None} ]_vars

\* The start time of a configuration has passed.
Overdue(c) == c.mode = "timestamp" /\ c.trig # 0 /\ c.trig <= now

\* What the program runs with, what the file holds and what a request is about
\* to write would pass validate() if they asked for no start time, and a target
\* set is refused as invalid only because that time has passed: however saves,
\* target sets, crashes and restarts alternate, no setting that validate()
\* refuses for itself gets in (config.rs:584-608, main.rs:166-177,
\* api.rs:462-466).  A start may still fail on a configuration that passes: the
\* list of endpoints may be empty, out of race_mode or with a sequencer
\* (config.rs:561), and main.rs:112 and 194 take its first.
OnlyTimeInvalidates ==
    /\ \A c \in Config \intersect ({memory, file} \union {body[r] : r \in Requests}) :
          Valid([c EXCEPT !.trig = 0])
    /\ \A r \in Requests : at[r] = "invalid" => Overdue(body[r])

------------------------------------------------------------------------------
(* What the repository says and the code does not do.                      *)

\* A live drop that takes the fee recipient can be set as the target
\* (api.rs:349-353).
SettableIsSet == \A r \in Requests : at[r] # "invalid"
==============================================================================
