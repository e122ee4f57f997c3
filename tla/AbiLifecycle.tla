--------------------------- MODULE AbiLifecycle ---------------------------
(***************************************************************************)
(* abiState (cmd/commandcode/abi.go): the host callbacks and the plugin    *)
(* behind one RWMutex, and the calls of the host that read and replace     *)
(* them, each on a thread of its own.                                      *)
(*                                                                         *)
(* An init stores the host's callbacks, a register or reconfigure builds a *)
(* plugin outside the lock and stores it, a shutdown takes both away.  Any *)
(* other method is a use: it takes the plugin once, and reads the host     *)
(* anew for every callback.  A host may call the plugin again before it    *)
(* answers a callback.                                                     *)
(*                                                                         *)
(* A streaming use starts goroutines: a reader for each stream the host    *)
(* opens for it, and a pump.  They make callbacks of their own, beside     *)
(* those of the use and of each other, and go on after it is answered.     *)
(*                                                                         *)
(* The plugin stored is named by the call that built it, the callbacks by  *)
(* the call that brought them.                                             *)
(***************************************************************************)
EXTENDS Naturals, FiniteSets

CONSTANTS
  Inits, Registers, Uses, Shutdowns,  \* the calls the host makes, by kind
  Goroutines,                         \* those the uses may start
  None, Unread

Calls   == Inits \cup Registers \cup Uses \cup Shutdowns
Writers == Inits \cup Registers \cup Shutdowns
Callers == Uses \cup Goroutines  \* those who call the host
Threads == Calls \cup Goroutines

ASSUME CallsAssumption ==
  /\ IsFiniteSet(Calls)
  /\ Goroutines \cap Calls = {}
  /\ None \notin Threads /\ Unread \notin Registers \cup {None}
  /\ Uses \cap Writers = {} /\ Registers \cap Shutdowns = {}
  /\ Inits \cap (Registers \cup Shutdowns) = {}

VARIABLES
  host, plugin,             \* abiState: a call, or None
  readers, writer, queued,  \* its RWMutex: the holders, the writers waiting
  pc,                       \* where each call and goroutine is
  mine,                     \* the plugin a use took; Unread before
  via,                      \* the host a caller has read and is about to call
  late,                     \* callbacks it made to each host already shut down
  refused,                  \* registers whose request did not decode
  parent,                   \* the caller whose callback waits for this call, or None
  answered,                 \* calls that have returned to the host
  before                    \* the calls answered when this one began

state   == <<host, plugin>>
mutex   == <<readers, writer, queued>>
usage   == <<mine, via, late>>
history == <<refused, parent, answered, before>>

vars == <<state, mutex, pc, usage, history>>

Init ==
  /\ host = None /\ plugin = None
  /\ readers = {} /\ writer = None /\ queued = {}
  /\ pc = [t \in Threads |-> "idle"]
  /\ mine = [u \in Uses |-> Unread] /\ via = [t \in Callers |-> None]
  /\ late = [t \in Callers |-> [i \in Inits |-> 0]]
  /\ refused = {} /\ parent = [c \in Calls |-> None]
  /\ answered = {} /\ before = [c \in Calls |-> {}]

Goto(c, l) == pc' = [pc EXCEPT ![c] = l]

-----------------------------------------------------------------------------
(* The host (not under src/).                                              *)

\* The table of exports reaches the host with init; init comes again only
\* after a shutdown.
Allowed(c) ==
  IF c \in Inits
  THEN \A i \in Inits : pc[i] # "idle" =>
         \E s \in Shutdowns \cap answered : i \in before[s]
  ELSE Inits \cap answered # {}

\* The host calls the plugin, perhaps while it serves a callback of p.
Start(c, p) ==
  /\ pc[c] = "idle" /\ Allowed(c)
  /\ p # None => pc[p] = "callback" /\ c \in (Registers \cup Uses) \ {p}
  /\ Goto(c, "enter")
  /\ parent' = [parent EXCEPT ![c] = p]
  /\ before' = [before EXCEPT ![c] = answered]
  /\ UNCHANGED <<state, mutex, usage, refused, answered>>

\* The host answers a callback, after the calls it made in it.
Callback(u) ==
  /\ pc[u] = "callback"
  /\ \A c \in Calls : parent[c] # u
  /\ Goto(u, "work")
  /\ UNCHANGED <<state, mutex, usage, history>>

-----------------------------------------------------------------------------
(* sync.RWMutex: a waiting writer keeps new readers out.                   *)

RLock(u) ==
  /\ writer = None /\ queued = {}
  /\ readers' = readers \cup {u}
  /\ UNCHANGED <<writer, queued>>

RUnlock(u) ==
  /\ readers' = readers \ {u}
  /\ UNCHANGED <<writer, queued>>

Lock(c) ==
  /\ pc[c] = "wait"
  /\ writer = None /\ readers = {}
  /\ writer' = c /\ queued' = queued \ {c}
  /\ Goto(c, "write")
  /\ UNCHANGED <<state, readers, usage, history>>

Queue(c) ==
  /\ queued' = queued \cup {c}
  /\ Goto(c, "wait")
  /\ UNCHANGED <<state, readers, writer, usage, history>>

-----------------------------------------------------------------------------
(* init, shutdown, register and reconfigure.                               *)

\* Mutant of Enter: a request that does not decode is built all the same.
EnterUndecoded(c) ==
  /\ c \in Writers /\ pc[c] = "enter"
  /\ queued' = queued \cup {c}
  /\ Goto(c, "wait")
  /\ \/ UNCHANGED refused
     \/ c \in Registers /\ refused' = refused \cup {c}
  /\ UNCHANGED <<state, readers, writer, usage, parent, answered, before>>

\* Mutant of Enter: a register is answered while its plugin is being built.
EnterAnswered(c) ==
  /\ c \in Writers /\ pc[c] = "enter"
  /\ IF c \in Registers \ answered
     THEN answered' = answered \cup {c} /\ UNCHANGED <<queued, pc>>
     ELSE queued' = queued \cup {c} /\ Goto(c, "wait") /\ UNCHANGED answered
  /\ UNCHANGED <<state, readers, writer, usage, refused, parent, before>>

\* To the lock; a register has decoded its request and built its plugin.
Enter(c) ==
  /\ c \in Writers /\ pc[c] = "enter"
  /\ Queue(c)

\* A register whose request does not decode leaves the state alone.
Refuse(c) ==
  /\ c \in Registers /\ pc[c] = "enter"
  /\ refused' = refused \cup {c}
  /\ Goto(c, "return")
  /\ UNCHANGED <<state, mutex, usage, parent, answered, before>>

\* What a writer stores.
Stored(c) ==
  /\ host' = IF c \in Inits THEN c ELSE IF c \in Shutdowns THEN None ELSE host
  /\ plugin' = IF c \in Registers THEN c
               ELSE IF c \in Shutdowns THEN None ELSE plugin

Store(c) ==
  /\ pc[c] = "write"
  /\ Stored(c)
  /\ writer' = None
  /\ Goto(c, "return")
  /\ UNCHANGED <<readers, queued, usage, history>>

Return(c) ==
  /\ pc[c] = "return"
  /\ answered' = answered \cup {c}
  /\ parent' = [parent EXCEPT ![c] = None]
  /\ Goto(c, "done")
  /\ UNCHANGED <<state, mutex, usage, refused, before>>

-----------------------------------------------------------------------------
(* Any other method.                                                       *)

LockCurrent(u) ==
  /\ u \in Uses /\ pc[u] = "enter"
  /\ RLock(u)
  /\ Goto(u, "current")
  /\ UNCHANGED <<state, usage, history>>

\* currentPlugin: without one the call is refused.
CurrentPlugin(u) ==
  /\ pc[u] = "current"
  /\ mine' = [mine EXCEPT ![u] = plugin]
  /\ RUnlock(u)
  /\ Goto(u, IF plugin = None THEN "return" ELSE "work")
  /\ UNCHANGED <<state, via, late, history>>

\* DoStream and marshalABIStreamResponse: the use starts a reader, or its pump.
Go(u, g) ==
  /\ pc[u] = "work" /\ pc[g] = "idle"
  /\ Goto(g, "work")
  /\ UNCHANGED <<state, mutex, usage, history>>

\* callHost: the host is read under the lock, called without it.
CallHost(t) ==
  /\ pc[t] = "work"
  /\ RLock(t)
  /\ Goto(t, "host")
  /\ UNCHANGED <<state, usage, history>>

\* Mutant of ReadHost: the lock is released only when there is no host.
ReadHostHolding(t) ==
  /\ pc[t] = "host"
  /\ via' = [via EXCEPT ![t] = host]
  /\ readers' = readers \ (IF host = None THEN {t} ELSE {})
  /\ Goto(t, IF host = None THEN "work" ELSE "dial")
  /\ UNCHANGED <<state, writer, queued, mine, late, history>>

ReadHost(t) ==
  /\ pc[t] = "host"
  /\ via' = [via EXCEPT ![t] = host]
  /\ RUnlock(t)
  /\ Goto(t, IF host = None THEN "work" ELSE "dial")
  /\ UNCHANGED <<state, mine, late, history>>

\* The host i brought has seen its shutdown return.
Gone(i) == \E s \in Shutdowns \cap answered : i \in before[s]

Lateness(t) == IF Gone(via[t]) THEN [late EXCEPT ![t][via[t]] = @ + 1] ELSE late

\* Mutant of Dial: a host that refuses the callback is called again.
DialAgain(t) ==
  /\ pc[t] = "dial"
  /\ late' = Lateness(t)
  /\ \/ Goto(t, "callback") /\ via' = [via EXCEPT ![t] = None]
     \/ UNCHANGED <<pc, via>>
  /\ UNCHANGED <<state, mutex, mine, history>>

\* The copy of the host is used once, and dropped.
Dial(t) ==
  /\ pc[t] = "dial"
  /\ late' = Lateness(t)
  /\ Goto(t, "callback") /\ via' = [via EXCEPT ![t] = None]
  /\ UNCHANGED <<state, mutex, mine, history>>

\* A result or an error: every way out of the method, or of the goroutine.
Finish(t) ==
  /\ pc[t] = "work"
  /\ Goto(t, IF t \in Goroutines THEN "done" ELSE "return")
  /\ UNCHANGED <<state, mutex, usage, history>>

-----------------------------------------------------------------------------

Step(c) ==
  \/ Enter(c) \/ Refuse(c) \/ Lock(c) \/ Store(c) \/ Return(c)
  \/ LockCurrent(c) \/ CurrentPlugin(c)
  \/ CallHost(c) \/ ReadHost(c) \/ Dial(c) \/ Callback(c)
  \/ Finish(c)

\* Nothing is in progress: the host need not call again.
Quiet == (\A t \in Threads : pc[t] \in {"idle", "done"}) /\ UNCHANGED vars

Next ==
  \/ \E t \in Threads : Step(t)
  \/ \E c \in Calls, p \in Callers \cup {None} : Start(c, p)
  \/ \E u \in Uses, g \in Goroutines : Go(u, g)
  \/ Quiet

Spec == Init /\ [][Next]_vars

\* Every thread that can run does, the host answers its callbacks, and no method
\* makes callbacks without end; a goroutine may.
FairSpec ==
  /\ Spec
  /\ \A t \in Threads : WF_vars(Step(t))
  /\ \A u \in Uses : SF_vars(Finish(u))

-----------------------------------------------------------------------------
(* Properties.                                                             *)

\* The type; a plugin stored was built from a request that decoded.
TypeOK ==
  /\ host \in Inits \cup {None}
  /\ plugin \in (Registers \ refused) \cup {None}
  /\ readers \subseteq Callers /\ queued \subseteq Writers
  /\ writer \in Writers \cup {None}
  /\ pc \in [Threads -> {"idle", "enter", "wait", "write", "current", "work",
                         "host", "dial", "callback", "return", "done"}]
  /\ mine \in [Uses -> Registers \cup {None, Unread}]
  /\ via \in [Callers -> Inits \cup {None}]
  /\ late \in [Callers -> [Inits -> Nat]]
  /\ refused \subseteq Registers /\ answered \subseteq Calls
  /\ parent \in [Calls -> Callers \cup {None}]
  /\ before \in [Calls -> SUBSET Calls]

\* Some call that began after w was answered has itself replaced the plugin
\* before u began.
Superseded(w, u) ==
  \E x \in before[u] \cap ((Registers \ refused) \cup Shutdowns) : w \in before[x]

\* A call never runs on a configuration replaced before it began, and is
\* refused only if no register was answered before it began, or a shutdown
\* may have come since (abi.go:308-320, 337-343).
RunsOnNewest ==
  \A u \in Uses :
    /\ mine[u] \in Registers => ~Superseded(mine[u], u)
    /\ mine[u] = None =>
         \/ before[u] \cap (Registers \ refused) = {}
         \/ \E s \in Shutdowns : pc[s] # "idle" /\ ~Superseded(s, u)

\* A host that has seen the shutdown return gets at most one callback more from
\* the thread of each use and from each goroutine, the one it was about to make:
\* so from a streaming use one for each of its readers and its pump beside its
\* own, however often hosts come and go (abi.go:369, 420, 461-485: the host is
\* read under the lock and called outside it).
OneLateCallback == \A t \in Callers, i \in Inits : late[t][i] <= 1

\* A reader holds the lock only while it reads, a writer only while it stores,
\* never both at once: no call keeps it across a callback, a build of a plugin or
\* its own return (abi.go:317-320, 337-343, 461-485).
LockDiscipline ==
  /\ readers = {t \in Callers : pc[t] \in {"current", "host"}}
  /\ queued = {c \in Writers : pc[c] = "wait"}
  /\ \A t \in Threads : pc[t] = "write" <=> writer = t
  /\ writer # None => readers = {}

\* Every call the host makes is answered, though the host reconfigures the
\* plugin while it serves a callback: no lock is held across a callback
\* (abi.go:461-463, 482).
EveryCallAnswered == \A c \in Calls : pc[c] = "enter" ~> c \in answered
=============================================================================
