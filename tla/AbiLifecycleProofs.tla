------------------------ MODULE AbiLifecycleProofs ------------------------
(***************************************************************************)
(* Proofs about AbiLifecycle, for any number of calls of each kind and of  *)
(* goroutines: its type, the lock, and which plugin and which host a call  *)
(* gets.                                                                   *)
(***************************************************************************)
EXTENDS AbiLifecycle, TLAPS

-----------------------------------------------------------------------------
(* The inductive invariant.                                                *)

Labels == {"idle", "enter", "wait", "write", "current", "work",
           "host", "dial", "callback", "return", "done"}

\* Where a call of each kind, and a goroutine, can be.
Places(c) ==
  IF c \in Writers
  THEN {"idle", "enter", "wait", "write", "return", "done"}
  ELSE {"idle", "work", "host", "dial", "callback", "done"}
       \cup (IF c \in Uses THEN {"enter", "current", "return"} ELSE {})

Types ==
  /\ host \in Inits \cup {None}
  /\ plugin \in (Registers \ refused) \cup {None}
  /\ writer \in Writers \cup {None}
  /\ pc \in [Threads -> Labels] /\ \A c \in Threads : pc[c] \in Places(c)
  /\ mine \in [Uses -> Registers \cup {None, Unread}]
  /\ via \in [Callers -> Inits \cup {None}]
  /\ late \in [Callers -> [Inits -> Nat]]
  /\ refused \subseteq Registers /\ answered \subseteq Calls
  /\ parent \in [Calls -> Callers \cup {None}]
  /\ before \in [Calls -> SUBSET Calls]

\* The writer c has stored what it came to store, or was refused.
Over(c) == pc[c] \in {"return", "done"}

\* A call that has replaced the plugin.
Replaced(c) == c \in (Registers \ refused) \cup Shutdowns /\ Over(c)

\* What a call and the answered calls know of each other.
Order ==
  /\ \A c \in Calls : before[c] \subseteq answered /\ (pc[c] = "idle" => before[c] = {})
  /\ \A c \in answered : pc[c] = "done"
  /\ \A c \in refused : Over(c)

\* What is stored was stored by a call that is over, and no call that has
\* replaced it since began after that one was answered.
Newest ==
  /\ plugin # None => Over(plugin)
  /\ \A c \in Calls : Replaced(c) => plugin \notin before[c]
  /\ plugin = None =>
       \/ \A c \in Registers \ refused : ~Over(c)
       \/ \E s \in Shutdowns : Over(s) /\ \A c \in Calls : Replaced(c) => s \notin before[c]

\* The host stored has not seen a shutdown that is over.
HostPresent ==
  /\ host # None => Over(host)
  /\ \A s \in Shutdowns : Over(s) => host \notin before[s]

\* A use that took a plugin is past the place where it takes it.
Taking == \A u \in Uses : mine[u] # Unread => pc[u] \notin {"idle", "enter", "current"}

\* A caller about to make a callback has made no late one to that host.
Dialling ==
  \A t \in Callers :
    /\ pc[t] = "dial" => via[t] \in Inits /\ late[t][via[t]] = 0
    /\ \A i \in Inits : late[t][i] > 0 => Gone(i)

IInv ==
  /\ Types /\ Order /\ LockDiscipline /\ Newest /\ HostPresent /\ Taking /\ Dialling
  /\ RunsOnNewest /\ OneLateCallback
-----------------------------------------------------------------------------
(* What a step of a call leaves alone.                                     *)

LEMMA Sorts ==
  /\ \A c \in Uses : c \in Calls /\ c \in Callers /\ c \in Threads /\ c \notin Writers
  /\ \A c \in Goroutines : c \in Callers /\ c \in Threads /\ c \notin Calls /\ c \notin Uses
  /\ \A c \in Calls : c \in Threads /\ c \notin Goroutines /\ (c \in Uses \/ c \in Writers)
  /\ \A c \in Callers : c \in Threads /\ c \notin Writers /\ (c \in Uses \/ c \in Goroutines)
  /\ \A c \in Threads : c \in Callers \/ c \in Writers
  /\ \A c \in Registers : c \in Writers /\ c \notin Shutdowns /\ c \notin Inits
  /\ \A c \in Shutdowns : c \in Writers /\ c \notin Inits
  /\ \A c \in Inits : c \in Writers
  /\ \A c \in Writers : c \in Calls /\ c \in Threads /\ c \notin Callers /\ c \notin Uses
  /\ None \notin Threads /\ None \notin Calls /\ Unread \notin Registers /\ Unread # None
BY CallsAssumption DEF Calls, Writers, Callers, Threads

\* Only a caller is where callers are, only a call where calls are, only a
\* writer where writers are.
LEMMA Placed ==
  ASSUME Types, NEW c \in Threads
  PROVE  /\ pc[c] \in {"current", "work", "host", "dial", "callback"} => c \in Callers
         /\ pc[c] = "current" => c \in Uses
         /\ pc[c] \in {"enter", "return"} => c \in Calls
         /\ pc[c] \in {"wait", "write"} => c \in Writers
<1>1. pc[c] \in Places(c)
  BY DEF Types
<1>2. CASE c \in Writers
  BY <1>1, <1>2, Sorts DEF Places
<1>3. CASE c \in Uses
  BY <1>1, <1>3, Sorts DEF Places
<1>4. CASE c \in Goroutines
  BY <1>1, <1>4, Sorts DEF Places
<1>5. QED
  BY <1>2, <1>3, <1>4, Sorts

\* The threads other than c stay where they are; c goes on, and stays over once
\* it is; it is over anew only by its store, or as a caller, or refused.
Onward(c) ==
  /\ pc' \in [Threads -> Labels] /\ \A d \in Threads \ {c} : pc'[d] = pc[d]
  /\ pc[c] \notin {"idle", "done"} /\ pc'[c] # "idle"
  /\ before' = before
  /\ Over(c) => Over(c)'
  /\ Over(c)' => Over(c) \/ Store(c) \/ c \in Callers \/ c \in refused'

\* What is added to the history is about c.
Recorded(c) ==
  /\ answered \subseteq answered' /\ answered' \subseteq answered \cup {c}
  /\ c \in answered' => c \in answered \/ (c \in Calls /\ pc'[c] = "done")
  /\ refused \subseteq refused' /\ refused' \subseteq refused \cup {c}
  /\ c \in refused' => c \in refused \/ (c \in Registers /\ Over(c)' /\ ~Over(c))

LEMMA StepFacts ==
  ASSUME IInv, NEW c \in Threads, Step(c)
  PROVE  Onward(c) /\ Recorded(c) /\ (Store(c) \/ UNCHANGED <<host, plugin>>)
<1>1. Types
  BY DEF IInv
<1>2. CASE Enter(c)
  <2>1. Goto(c, "wait") /\ pc[c] = "enter" /\ UNCHANGED <<host, plugin, refused, answered, before>>
    BY <1>2 DEF Enter, Queue, state, history
  <2>2. /\ pc' \in [Threads -> Labels] /\ pc'[c] \in {"wait"}
        /\ \A d \in Threads \ {c} : pc'[d] = pc[d]
    BY <1>1, <2>1 DEF Types, Goto, Labels
  <2>3. QED
    BY <1>1, <2>1, <2>2 DEF Onward, Recorded, Over
<1>3. CASE Refuse(c)
  <2>1. /\ c \in Registers /\ refused' = refused \cup {c} /\ Goto(c, "return")
        /\ pc[c] = "enter" /\ UNCHANGED <<host, plugin, answered, before>>
    BY <1>3 DEF Refuse, state, history
  <2>2. /\ pc' \in [Threads -> Labels] /\ pc'[c] \in {"return"}
        /\ \A d \in Threads \ {c} : pc'[d] = pc[d]
    BY <1>1, <2>1 DEF Types, Goto, Labels
  <2>3. QED
    BY <1>1, <2>1, <2>2 DEF Onward, Recorded, Over
<1>4. CASE Lock(c)
  <2>1. Goto(c, "write") /\ pc[c] = "wait" /\ UNCHANGED <<host, plugin, refused, answered, before>>
    BY <1>4 DEF Lock, state, history
  <2>2. /\ pc' \in [Threads -> Labels] /\ pc'[c] \in {"write"}
        /\ \A d \in Threads \ {c} : pc'[d] = pc[d]
    BY <1>1, <2>1 DEF Types, Goto, Labels
  <2>3. QED
    BY <1>1, <2>1, <2>2 DEF Onward, Recorded, Over
<1>5. CASE Store(c)
  <2>1. Goto(c, "return") /\ pc[c] = "write" /\ UNCHANGED <<refused, answered, before>>
    BY <1>5 DEF Store, state, history
  <2>2. /\ pc' \in [Threads -> Labels] /\ pc'[c] \in {"return"}
        /\ \A d \in Threads \ {c} : pc'[d] = pc[d]
    BY <1>1, <2>1 DEF Types, Goto, Labels
  <2>3. QED
    BY <1>1, <1>5, <2>1, <2>2 DEF Onward, Recorded, Over
<1>6. CASE Return(c)
  <2>1. c \in Calls
    BY <1>1, <1>6, Placed DEF Return
  <2>2. /\ answered' = answered \cup {c} /\ Goto(c, "done") /\ pc[c] = "return"
        /\ UNCHANGED <<host, plugin, refused, before>>
    BY <1>6 DEF Return, state, history
  <2>3. /\ pc' \in [Threads -> Labels] /\ pc'[c] \in {"done"}
        /\ \A d \in Threads \ {c} : pc'[d] = pc[d]
    BY <1>1, <2>2 DEF Types, Goto, Labels
  <2>4. QED
    BY <1>1, <2>1, <2>2, <2>3 DEF Onward, Recorded, Over
<1>7. CASE LockCurrent(c)
  <2>1. Goto(c, "current") /\ pc[c] = "enter" /\ UNCHANGED <<host, plugin, refused, answered, before>>
    BY <1>7 DEF LockCurrent, state, history
  <2>2. /\ pc' \in [Threads -> Labels] /\ pc'[c] \in {"current"}
        /\ \A d \in Threads \ {c} : pc'[d] = pc[d]
    BY <1>1, <2>1 DEF Types, Goto, Labels
  <2>3. QED
    BY <1>1, <2>1, <2>2 DEF Onward, Recorded, Over
<1>8. CASE CurrentPlugin(c)
  <2>1. /\ Goto(c, "return") \/ Goto(c, "work")
        /\ pc[c] = "current" /\ UNCHANGED <<host, plugin, refused, answered, before>>
    BY <1>8 DEF CurrentPlugin, state, history
  <2>2. c \in Callers
    BY <1>1, <2>1, Placed
  <2>3. /\ pc' \in [Threads -> Labels] /\ pc'[c] \in {"return", "work"}
        /\ \A d \in Threads \ {c} : pc'[d] = pc[d]
    BY <1>1, <2>1 DEF Types, Goto, Labels
  <2>4. QED
    BY <1>1, <2>1, <2>2, <2>3 DEF Onward, Recorded, Over
<1>9. CASE CallHost(c)
  <2>1. Goto(c, "host") /\ pc[c] = "work" /\ UNCHANGED <<host, plugin, refused, answered, before>>
    BY <1>9 DEF CallHost, state, history
  <2>2. /\ pc' \in [Threads -> Labels] /\ pc'[c] \in {"host"}
        /\ \A d \in Threads \ {c} : pc'[d] = pc[d]
    BY <1>1, <2>1 DEF Types, Goto, Labels
  <2>3. QED
    BY <1>1, <2>1, <2>2 DEF Onward, Recorded, Over
<1>10. CASE ReadHost(c)
  <2>1. /\ Goto(c, "work") \/ Goto(c, "dial")
        /\ pc[c] = "host" /\ UNCHANGED <<host, plugin, refused, answered, before>>
    BY <1>10 DEF ReadHost, state, history
  <2>2. /\ pc' \in [Threads -> Labels] /\ pc'[c] \in {"work", "dial"}
        /\ \A d \in Threads \ {c} : pc'[d] = pc[d]
    BY <1>1, <2>1 DEF Types, Goto, Labels
  <2>3. QED
    BY <1>1, <2>1, <2>2 DEF Onward, Recorded, Over
<1>11. CASE Dial(c)
  <2>1. Goto(c, "callback") /\ pc[c] = "dial" /\ UNCHANGED <<host, plugin, refused, answered, before>>
    BY <1>11 DEF Dial, state, history
  <2>2. /\ pc' \in [Threads -> Labels] /\ pc'[c] \in {"callback"}
        /\ \A d \in Threads \ {c} : pc'[d] = pc[d]
    BY <1>1, <2>1 DEF Types, Goto, Labels
  <2>3. QED
    BY <1>1, <2>1, <2>2 DEF Onward, Recorded, Over
<1>12. CASE Callback(c)
  <2>1. Goto(c, "work") /\ pc[c] = "callback" /\ UNCHANGED <<host, plugin, refused, answered, before>>
    BY <1>12 DEF Callback, state, history
  <2>2. /\ pc' \in [Threads -> Labels] /\ pc'[c] \in {"work"}
        /\ \A d \in Threads \ {c} : pc'[d] = pc[d]
    BY <1>1, <2>1 DEF Types, Goto, Labels
  <2>3. QED
    BY <1>1, <2>1, <2>2 DEF Onward, Recorded, Over
<1>13. CASE Finish(c)
  <2>1. /\ Goto(c, "done") \/ Goto(c, "return")
        /\ pc[c] = "work" /\ UNCHANGED <<host, plugin, refused, answered, before>>
    BY <1>13 DEF Finish, state, history
  <2>2. c \in Callers
    BY <1>1, <2>1, Placed
  <2>3. /\ pc' \in [Threads -> Labels] /\ pc'[c] \in {"done", "return"}
        /\ \A d \in Threads \ {c} : pc'[d] = pc[d]
    BY <1>1, <2>1 DEF Types, Goto, Labels
  <2>4. QED
    BY <1>1, <2>1, <2>2, <2>3 DEF Onward, Recorded, Over
<1>14. QED
  BY <1>2, <1>3, <1>4, <1>5, <1>6, <1>7, <1>8, <1>9, <1>10, <1>11, <1>12, <1>13 DEF Step

LEMMA StartFacts ==
  ASSUME IInv, NEW c \in Calls, NEW p \in Callers \cup {None}, Start(c, p)
  PROVE  /\ pc' \in [Threads -> Labels] /\ pc[c] = "idle" /\ pc'[c] = "enter"
         /\ \A d \in Threads \ {c} : pc'[d] = pc[d]
         /\ parent' = [parent EXCEPT ![c] = p]
         /\ before' = [before EXCEPT ![c] = answered]
         /\ before'[c] = answered /\ \A d \in Calls \ {c} : before'[d] = before[d]
         /\ UNCHANGED <<host, plugin, readers, writer, queued, mine, via, late, refused, answered>>
         /\ \A d \in Calls : Over(d)' <=> Over(d)
         /\ \A d \in Calls : Replaced(d)' <=> Replaced(d)
<1>1. /\ pc[c] = "idle" /\ Goto(c, "enter") /\ parent' = [parent EXCEPT ![c] = p]
      /\ before' = [before EXCEPT ![c] = answered]
      /\ UNCHANGED <<host, plugin, readers, writer, queued, mine, via, late, refused, answered>>
  BY DEF Start, state, mutex, usage
<1>2. Types
  BY DEF IInv
<1>3. /\ pc' \in [Threads -> Labels] /\ pc'[c] = "enter"
      /\ \A d \in Threads \ {c} : pc'[d] = pc[d]
  BY <1>1, <1>2, Sorts DEF Types, Goto, Labels
<1>4. before'[c] = answered /\ \A d \in Calls \ {c} : before'[d] = before[d]
  BY <1>1, <1>2 DEF Types
<1>5. \A d \in Calls : Over(d)' <=> Over(d)
  BY <1>1, <1>3, Sorts DEF Over
<1>6. \A d \in Calls : Replaced(d)' <=> Replaced(d)
  BY <1>1, <1>5 DEF Replaced
<1>7. QED
  BY <1>1, <1>3, <1>4, <1>5, <1>6

-----------------------------------------------------------------------------
(* A step of a call keeps each part of the invariant.                      *)

LEMMA StepPlaces ==
  ASSUME IInv, NEW c \in Threads, Step(c)
  PROVE  pc'[c] \in Places(c)
<1>1. Types
  BY DEF IInv
<1>2. ASSUME NEW l \in Labels, Goto(c, l) PROVE pc'[c] = l
  BY <1>1, <1>2 DEF Types, Goto
<1>3. CASE Enter(c)
  BY <1>2, <1>3, Sorts DEF Enter, Queue, Places, Labels
<1>4. CASE Refuse(c)
  BY <1>2, <1>4, Sorts DEF Refuse, Places, Labels
<1>5. CASE Lock(c)
  <2>1. c \in Writers /\ Goto(c, "write")
    BY <1>1, <1>5, Placed DEF Lock
  <2>2. QED
    BY <1>2, <2>1, Sorts DEF Places, Labels
<1>6. CASE Store(c)
  <2>1. c \in Writers /\ Goto(c, "return")
    BY <1>1, <1>6, Placed DEF Store
  <2>2. QED
    BY <1>2, <2>1 DEF Places, Labels
<1>7. CASE Return(c)
  BY <1>2, <1>7 DEF Return, Places, Labels
<1>8. CASE LockCurrent(c)
  BY <1>2, <1>8, Sorts DEF LockCurrent, Places, Labels
<1>9. CASE CurrentPlugin(c)
  <2>1. c \in Uses /\ (Goto(c, "work") \/ Goto(c, "return"))
    BY <1>1, <1>9, Placed DEF CurrentPlugin
  <2>2. QED
    BY <1>2, <2>1, Sorts DEF Places, Labels
<1>10. CASE CallHost(c) \/ ReadHost(c) \/ Dial(c) \/ Callback(c)
  <2>1. pc[c] \in {"work", "host", "dial", "callback"}
    BY <1>10 DEF CallHost, ReadHost, Dial, Callback
  <2>2. c \in Callers
    BY <1>1, <2>1, Placed
  <2>3. Goto(c, "work") \/ Goto(c, "host") \/ Goto(c, "dial") \/ Goto(c, "callback")
    BY <1>10 DEF CallHost, ReadHost, Dial, Callback
  <2>4. QED
    BY <1>2, <2>2, <2>3, Sorts DEF Places, Labels
<1>11. CASE Finish(c)
  <2>1. c \in Callers /\ Goto(c, IF c \in Goroutines THEN "done" ELSE "return")
    BY <1>1, <1>11, Placed DEF Finish
  <2>2. QED
    BY <1>2, <2>1, Sorts DEF Places, Labels
<1>12. QED
  BY <1>3, <1>4, <1>5, <1>6, <1>7, <1>8, <1>9, <1>10, <1>11 DEF Step

\* A step of c that leaves what the callers know.
UsageKept(c) ==
  /\ UNCHANGED <<mine, via, late>>
  /\ pc'[c] \in {"wait", "write", "work", "host", "return", "done"}
     \/ (pc[c] = "enter" /\ pc'[c] = "current")

LEMMA UsageFacts ==
  ASSUME IInv, NEW c \in Threads, Step(c)
  PROVE  \/ UsageKept(c)
         \/ c \in Uses /\ CurrentPlugin(c) /\ UNCHANGED <<via, late>>
         \/ c \in Callers /\ ReadHost(c) /\ UNCHANGED <<mine, late>>
         \/ c \in Callers /\ Dial(c) /\ UNCHANGED mine
<1>1. Types
  BY DEF IInv
<1>2. ASSUME NEW l \in Labels, Goto(c, l) PROVE pc'[c] = l
  BY <1>1, <1>2 DEF Types, Goto
<1>3. CASE Enter(c) \/ Refuse(c) \/ Lock(c) \/ Store(c) \/ Return(c)
  <2>1. /\ UNCHANGED usage
        /\ Goto(c, "wait") \/ Goto(c, "return") \/ Goto(c, "write") \/ Goto(c, "done")
    BY <1>3 DEF Enter, Queue, Refuse, Lock, Store, Return
  <2>2. QED
    BY <1>2, <2>1 DEF usage, UsageKept, Labels
<1>4. CASE LockCurrent(c)
  <2>1. UNCHANGED usage /\ Goto(c, "current") /\ pc[c] = "enter"
    BY <1>4 DEF LockCurrent
  <2>2. QED
    BY <1>2, <2>1 DEF usage, UsageKept, Labels
<1>5. CASE CallHost(c) \/ Callback(c) \/ Finish(c)
  <2>1. /\ UNCHANGED usage
        /\ Goto(c, "host") \/ Goto(c, "work") \/ Goto(c, "return") \/ Goto(c, "done")
    BY <1>5 DEF CallHost, Callback, Finish
  <2>2. QED
    BY <1>2, <2>1 DEF usage, UsageKept, Labels
<1>6. CASE CurrentPlugin(c) \/ ReadHost(c) \/ Dial(c)
  <2>1. (CurrentPlugin(c) => c \in Uses) /\ c \in Callers
    BY <1>1, <1>6, Placed DEF CurrentPlugin, ReadHost, Dial
  <2>2. QED
    BY <1>6, <2>1 DEF CurrentPlugin, ReadHost, Dial
<1>7. QED
  BY <1>3, <1>4, <1>5, <1>6 DEF Step

LEMMA StepTypes ==
  ASSUME IInv, NEW c \in Threads, Step(c)
  PROVE  Types'
<1>1. Types
  BY DEF IInv
<1>2. Onward(c) /\ Recorded(c)
  BY StepFacts
<1>3. /\ pc' \in [Threads -> Labels] /\ \A d \in Threads : pc'[d] \in Places(d)
  BY <1>1, <1>2, StepPlaces DEF Onward, Types
<1>4. /\ refused' \subseteq Registers /\ answered' \subseteq Calls
      /\ before' \in [Calls -> SUBSET Calls]
  BY <1>1, <1>2 DEF Onward, Recorded, Types
<1>5. host' \in Inits \cup {None} /\ plugin' \in (Registers \ refused') \cup {None}
  <2>1. plugin \in Registers => plugin \in Calls /\ Over(plugin)
    <3>1. plugin \in Registers => plugin # None
      BY Sorts
    <3>2. QED
      BY <3>1, Sorts DEF IInv, Newest
  <2>2. CASE Store(c)
    <3>1. c \notin refused
      BY <2>2 DEF IInv, Order, Over, Store
    <3>2. refused' = refused
      BY <2>2 DEF Store, history
    <3>3. QED
      BY <1>1, <2>2, <3>1, <3>2 DEF Store, Stored, Types
  <2>3. CASE UNCHANGED <<host, plugin>>
    BY <1>1, <1>2, <2>1, <2>3, Sorts DEF Types, Recorded
  <2>4. QED
    BY <2>2, <2>3, StepFacts
<1>6. writer' \in Writers \cup {None}
  <2>1. CASE Lock(c)
    BY <1>1, <2>1, Placed DEF Lock
  <2>2. CASE Store(c)
    BY <2>2 DEF Store
  <2>3. CASE ~Lock(c) /\ ~Store(c)
    <3>1. UNCHANGED writer
      BY <2>3 DEF Step, Enter, Queue, Refuse, Return, LockCurrent, CurrentPlugin, CallHost,
                  ReadHost, Dial, Callback, Finish, RLock, RUnlock, mutex
    <3>2. QED
      BY <1>1, <3>1 DEF Types
  <2>4. QED
    BY <2>1, <2>2, <2>3
<1>7. /\ mine' \in [Uses -> Registers \cup {None, Unread}]
      /\ via' \in [Callers -> Inits \cup {None}]
      /\ late' \in [Callers -> [Inits -> Nat]]
  <2>1. CASE UsageKept(c)
    BY <1>1, <2>1 DEF UsageKept, Types
  <2>2. CASE c \in Uses /\ CurrentPlugin(c) /\ UNCHANGED <<via, late>>
    BY <1>1, <2>2 DEF CurrentPlugin, Types
  <2>3. CASE c \in Callers /\ ReadHost(c) /\ UNCHANGED <<mine, late>>
    BY <1>1, <2>3 DEF ReadHost, Types
  <2>4. CASE c \in Callers /\ Dial(c) /\ UNCHANGED mine
    <3>1. via[c] \in Inits
      BY <2>4 DEF IInv, Dialling, Dial
    <3>2. late[c] \in [Inits -> Nat]
      BY <1>1, <2>4 DEF Types
    <3>3. [late[c] EXCEPT ![via[c]] = @ + 1] \in [Inits -> Nat]
      BY <3>1, <3>2
    <3>4. late' = [late EXCEPT ![c] = [late[c] EXCEPT ![via[c]] = @ + 1]] \/ late' = late
      BY <2>4 DEF Dial, Lateness
    <3>5. via' = [via EXCEPT ![c] = None]
      BY <2>4 DEF Dial
    <3>6. QED
      BY <1>1, <2>4, <3>3, <3>4, <3>5 DEF Types
  <2>5. QED
    BY <2>1, <2>2, <2>3, <2>4, UsageFacts
<1>8. parent' \in [Calls -> Callers \cup {None}]
  <2>1. parent' = parent \/ parent' = [parent EXCEPT ![c] = None]
    BY DEF Step, Enter, Queue, Refuse, Lock, Store, Return, LockCurrent, CurrentPlugin,
           CallHost, ReadHost, Dial, Callback, Finish, history
  <2>2. QED
    BY <1>1, <2>1 DEF Types
<1>9. QED
  BY <1>3, <1>4, <1>5, <1>6, <1>7, <1>8 DEF Types

LEMMA StepOrder ==
  ASSUME IInv, NEW c \in Threads, Step(c)
  PROVE  Order'
<1>1. Types /\ Order
  BY DEF IInv
<1>2. Onward(c) /\ Recorded(c)
  BY StepFacts
<1>3. \A d \in Calls : before'[d] \subseteq answered' /\ (pc'[d] = "idle" => before'[d] = {})
  BY <1>1, <1>2, Sorts DEF Order, Onward, Recorded
<1>4. ASSUME NEW d \in answered'
      PROVE  pc'[d] = "done"
  <2>1. CASE d = c
    BY <1>1, <1>2, <1>4, <2>1, Sorts DEF Order, Onward, Recorded
  <2>2. CASE d # c
    <3>1. d \in answered /\ d \in Calls
      BY <1>1, <1>2, <1>4, <2>2 DEF Recorded, Types
    <3>2. QED
      BY <1>1, <1>2, <2>2, <3>1, Sorts DEF Order, Onward
  <2>3. QED
    BY <2>1, <2>2
<1>5. ASSUME NEW d \in refused' PROVE Over(d)'
  <2>1. CASE d = c
    BY <1>1, <1>2, <1>5, <2>1 DEF Order, Onward, Recorded
  <2>2. CASE d # c
    <3>1. d \in refused /\ d \in Calls
      BY <1>1, <1>2, <1>5, <2>2, Sorts DEF Recorded, Types
    <3>2. QED
      BY <1>1, <1>2, <2>2, <3>1, Sorts DEF Order, Onward, Over
  <2>3. QED
    BY <2>1, <2>2
<1>6. QED
  BY <1>3, <1>4, <1>5 DEF Order

LEMMA StepLock ==
  ASSUME IInv, NEW c \in Threads, Step(c)
  PROVE  LockDiscipline'
<1>1. Types /\ LockDiscipline
  BY DEF IInv
<1>2. \A d \in Threads \ {c} : pc'[d] = pc[d]
  BY StepFacts DEF Onward
<1>3. ASSUME NEW l \in Labels, Goto(c, l) PROVE pc'[c] = l
  BY <1>1, <1>3 DEF Types, Goto
<1>4. CASE Enter(c)
  <2>1. /\ c \in Writers /\ pc[c] = "enter" /\ pc'[c] = "wait"
        /\ queued' = queued \cup {c} /\ UNCHANGED <<readers, writer>>
    BY <1>3, <1>4 DEF Enter, Queue, Labels
  <2>2. QED
    BY <1>1, <1>2, <2>1, Sorts DEF LockDiscipline
<1>5. CASE Lock(c)
  <2>1. /\ pc[c] = "wait" /\ pc'[c] = "write" /\ writer = None /\ readers = {}
        /\ writer' = c /\ queued' = queued \ {c} /\ UNCHANGED readers
    BY <1>3, <1>5 DEF Lock, Labels
  <2>2. c \in Writers
    BY <1>1, <2>1, Placed
  <2>3. readers' = {t \in Callers : pc'[t] \in {"current", "host"}}
    BY <1>1, <1>2, <2>1, <2>2, Sorts DEF LockDiscipline
  <2>4. queued' = {d \in Writers : pc'[d] = "wait"}
    BY <1>1, <1>2, <2>1, Sorts DEF LockDiscipline
  <2>5. \A d \in Threads : pc'[d] = "write" <=> writer' = d
    BY <1>1, <1>2, <2>1, Sorts DEF LockDiscipline
  <2>6. QED
    BY <2>1, <2>3, <2>4, <2>5 DEF LockDiscipline
<1>6. CASE Store(c)
  <2>1. /\ pc[c] = "write" /\ pc'[c] = "return" /\ writer' = None
        /\ UNCHANGED <<readers, queued>>
    BY <1>3, <1>6 DEF Store, Labels
  <2>2. QED
    BY <1>1, <1>2, <2>1, Sorts DEF LockDiscipline
<1>7. ASSUME c \in Callers, pc[c] \notin {"current", "host"}, RLock(c),
             pc'[c] \in {"current", "host"}
      PROVE  LockDiscipline'
  BY <1>1, <1>2, <1>7, Placed, Sorts DEF LockDiscipline, RLock
<1>8. ASSUME c \in Callers, pc[c] \in {"current", "host"}, RUnlock(c),
             pc'[c] \notin {"current", "host", "write"}
      PROVE  LockDiscipline'
  BY <1>1, <1>2, <1>8, Sorts DEF LockDiscipline, RUnlock
<1>9. ASSUME UNCHANGED <<readers, writer, queued>>,
             pc[c] \notin {"current", "host", "wait", "write"},
             pc'[c] \notin {"current", "host", "wait", "write"}
      PROVE  LockDiscipline'
  <2>1. readers' = {t \in Callers : pc'[t] \in {"current", "host"}}
    BY <1>1, <1>2, <1>9, Sorts DEF LockDiscipline
  <2>2. queued' = {d \in Writers : pc'[d] = "wait"}
    BY <1>1, <1>2, <1>9, Sorts DEF LockDiscipline
  <2>3. \A d \in Threads : pc'[d] = "write" <=> writer' = d
    BY <1>1, <1>2, <1>9, Sorts DEF LockDiscipline
  <2>4. writer' # None => readers' = {}
    BY <1>1, <1>9 DEF LockDiscipline
  <2>5. QED
    BY <2>1, <2>2, <2>3, <2>4 DEF LockDiscipline
<1>10. CASE LockCurrent(c)
  BY <1>3, <1>7, <1>10, Sorts DEF LockCurrent, Labels
<1>11. CASE CallHost(c)
  <2>1. c \in Callers
    BY <1>1, <1>11, Placed DEF CallHost
  <2>2. QED
    BY <1>3, <1>7, <1>11, <2>1 DEF CallHost, Labels
<1>12. CASE CurrentPlugin(c) \/ ReadHost(c)
  <2>1. /\ pc[c] \in {"current", "host"} /\ RUnlock(c)
        /\ Goto(c, "work") \/ Goto(c, "return") \/ Goto(c, "dial")
    BY <1>12 DEF CurrentPlugin, ReadHost
  <2>2. c \in Callers
    BY <1>1, <2>1, Placed
  <2>3. QED
    BY <1>3, <1>8, <2>1, <2>2 DEF Labels
<1>13. CASE Refuse(c) \/ Return(c) \/ Dial(c) \/ Callback(c) \/ Finish(c)
  <2>1. /\ pc[c] \in {"enter", "return", "dial", "callback", "work"}
        /\ \/ Goto(c, "return") \/ Goto(c, "done") \/ Goto(c, "callback") \/ Goto(c, "work")
        /\ UNCHANGED <<readers, writer, queued>>
    BY <1>13 DEF Refuse, Return, Dial, Callback, Finish, mutex
  <2>2. QED
    BY <1>3, <1>9, <2>1 DEF Labels
<1>14. QED
  BY <1>4, <1>5, <1>6, <1>10, <1>11, <1>12, <1>13 DEF Step

\* What a call stores was not answered when any other began.
LEMMA StoreFacts ==
  ASSUME IInv, NEW c \in Threads, Store(c)
  PROVE  /\ c \in Writers /\ Over(c)' /\ before' = before /\ refused' = refused
         /\ Stored(c) /\ c \notin refused
         /\ \A d \in Calls : c \notin before[d] /\ None \notin before[d]
         /\ \A d \in Calls \ {c} : (Over(d)' <=> Over(d)) /\ (Replaced(d)' <=> Replaced(d))
<1>1. Types /\ Order /\ pc[c] = "write" /\ Stored(c) /\ Goto(c, "return")
      /\ UNCHANGED <<refused, before>>
  BY DEF IInv, Store, history
<1>2. c \in Writers
  BY <1>1, Placed
<1>3. Over(c)' /\ \A d \in Calls \ {c} : (Over(d)' <=> Over(d)) /\ (Replaced(d)' <=> Replaced(d))
  BY <1>1, Sorts DEF Goto, Over, Replaced, Types
<1>4. c \notin refused /\ c \notin answered
  BY <1>1, <1>2 DEF Order, Over
<1>5. \A d \in Calls : before[d] \subseteq answered /\ before[d] \subseteq Calls
  BY <1>1 DEF Order, Types
<1>6. QED
  BY <1>1, <1>2, <1>3, <1>4, <1>5, Sorts

\* A step that stores nothing ends no call that would have replaced something.
LEMMA NoStoreFacts ==
  ASSUME IInv, NEW c \in Threads, Step(c), ~Store(c)
  PROVE  /\ UNCHANGED <<host, plugin, before>>
         /\ \A d \in Calls : (Over(d) => Over(d)') /\ (Replaced(d)' => Replaced(d))
         /\ \A d \in Registers \ refused' : d \in Registers \ refused /\ (Over(d)' => Over(d))
         /\ \A d \in Shutdowns : Over(d)' => Over(d)
<1>1. Onward(c) /\ Recorded(c) /\ UNCHANGED <<host, plugin>>
  BY StepFacts
<1>2. ASSUME NEW d \in Calls PROVE Over(d) => Over(d)'
  BY <1>1, Sorts DEF Onward, Over
<1>3. ASSUME NEW d \in (Registers \ refused') \cup Shutdowns, Over(d)' PROVE Over(d)
  <2>1. CASE d = c
    <3>1. c \notin Callers /\ (c \in refused' => c \in Shutdowns)
      BY <2>1, Sorts
    <3>2. c \in refused' /\ ~Over(c) => c \in Registers \/ c \in refused
      BY <1>1 DEF Recorded
    <3>3. c \notin refused' \/ Over(c)
      <4>1. refused \subseteq Registers /\ \A k \in refused : Over(k)
        BY DEF IInv, Types, Order
      <4>2. QED
        BY <3>1, <3>2, <4>1, Sorts
    <3>4. QED
      BY <1>1, <1>3, <2>1, <3>1, <3>3 DEF Onward
  <2>2. CASE d # c
    BY <1>1, <1>3, <2>2, Sorts DEF Onward, Over
  <2>3. QED
    BY <2>1, <2>2
<1>4. refused \subseteq refused' /\ before' = before
  BY <1>1 DEF Onward, Recorded
<1>5. QED
  BY <1>1, <1>2, <1>3, <1>4 DEF Replaced

LEMMA StepNewest ==
  ASSUME IInv, NEW c \in Threads, Step(c)
  PROVE  Newest'
<1>1. Newest /\ Types
  BY DEF IInv
<1>2. CASE ~Store(c)
  <2>1. plugin # None => plugin \in Calls
    BY <1>1, Sorts DEF Types
  <2>2. \A s \in Shutdowns : s \in Calls
    BY Sorts
  <2>3. QED
    BY <1>1, <1>2, <2>1, <2>2, NoStoreFacts DEF Newest
<1>3. CASE Store(c) /\ c \in Inits
  <2>1. plugin' = plugin /\ (plugin # None => plugin \in Calls \ {c})
    BY <1>1, <1>3, Sorts, StoreFacts DEF Stored, Types
  <2>2. \A d \in Calls : Replaced(d)' => Replaced(d) /\ d # c
    BY <1>3, Sorts, StoreFacts DEF Replaced
  <2>3. \A d \in Registers \cup Shutdowns : d \in Calls \ {c} /\ (Over(d)' <=> Over(d))
    BY <1>3, Sorts, StoreFacts
  <2>4. QED
    BY <1>1, <1>3, <2>1, <2>2, <2>3, StoreFacts DEF Newest
<1>4. CASE Store(c) /\ c \in Registers
  <2>1. plugin' = c /\ c # None
    BY <1>4, Sorts, StoreFacts DEF Stored
  <2>2. QED
    BY <1>4, <2>1, StoreFacts DEF Newest
<1>5. CASE Store(c) /\ c \in Shutdowns
  <2>1. plugin' = None
    BY <1>5, Sorts, StoreFacts DEF Stored
  <2>2. QED
    BY <1>5, <2>1, StoreFacts DEF Newest
<1>6. QED
  BY <1>2, <1>3, <1>4, <1>5, StoreFacts DEF Writers

LEMMA StepHost ==
  ASSUME IInv, NEW c \in Threads, Step(c)
  PROVE  HostPresent'
<1>1. HostPresent /\ Types
  BY DEF IInv
<1>2. host # None => host \in Calls /\ host \notin Registers
  BY <1>1, Sorts DEF Types
<1>3. CASE ~Store(c)
  BY <1>1, <1>2, <1>3, NoStoreFacts DEF HostPresent
<1>4. CASE Store(c) /\ c \in Inits
  <2>1. host' = c
    BY <1>4, StoreFacts DEF Stored
  <2>2. QED
    BY <1>4, <2>1, Sorts, StoreFacts DEF HostPresent
<1>5. CASE Store(c) /\ c \in Shutdowns
  <2>1. host' = None
    BY <1>5, Sorts, StoreFacts DEF Stored
  <2>2. QED
    BY <1>5, <2>1, Sorts, StoreFacts DEF HostPresent
<1>6. CASE Store(c) /\ c \in Registers
  <2>1. host' = host
    BY <1>6, Sorts, StoreFacts DEF Stored
  <2>2. QED
    BY <1>1, <1>2, <1>6, <2>1, Sorts, StoreFacts DEF HostPresent
<1>7. QED
  BY <1>3, <1>4, <1>5, <1>6, StoreFacts DEF Writers

\* Who is gone stays gone: what an answered call has seen is settled.
LEMMA StepGone ==
  ASSUME IInv, NEW c \in Threads, Step(c), NEW i, Gone(i)
  PROVE  Gone(i)'
BY StepFacts DEF Onward, Recorded, Gone

LEMMA StepTaking ==
  ASSUME IInv, NEW c \in Threads, Step(c)
  PROVE  Taking'
<1>1. Types /\ Taking
  BY DEF IInv
<1>2. \A d \in Threads \ {c} : pc'[d] = pc[d]
  BY StepFacts DEF Onward
<1>3. CASE UNCHANGED mine /\ pc'[c] \notin {"idle", "enter"}
           /\ (pc'[c] = "current" => pc[c] = "enter")
  BY <1>1, <1>2, <1>3, Sorts DEF Taking
<1>4. CASE c \in Uses /\ CurrentPlugin(c)
  <2>1. \A u \in Uses \ {c} : mine'[u] = mine[u]
    BY <1>1, <1>4 DEF CurrentPlugin, Types
  <2>2. pc'[c] \in {"work", "return"}
    BY <1>1, <1>4 DEF CurrentPlugin, Goto, Types
  <2>3. QED
    BY <1>1, <1>2, <2>1, <2>2, Sorts DEF Taking
<1>5. CASE UsageKept(c)
  BY <1>3, <1>5 DEF UsageKept
<1>6. CASE (ReadHost(c) \/ Dial(c)) /\ UNCHANGED mine
  <2>1. pc'[c] \in {"work", "dial", "callback"}
    BY <1>1, <1>6 DEF ReadHost, Dial, Goto, Types
  <2>2. QED
    BY <1>3, <1>6, <2>1
<1>7. QED
  BY <1>4, <1>5, <1>6, UsageFacts

LEMMA StepDialling ==
  ASSUME IInv, NEW c \in Threads, Step(c)
  PROVE  Dialling' /\ OneLateCallback'
<1>1. Types /\ Order /\ HostPresent /\ Dialling /\ OneLateCallback
  BY DEF IInv
<1>2. /\ pc' \in [Threads -> Labels] /\ \A d \in Threads \ {c} : pc'[d] = pc[d]
      /\ \A i \in Inits : Gone(i) => Gone(i)'
  BY StepFacts, StepGone DEF Onward
<1>3. ASSUME NEW l \in Labels, Goto(c, l) PROVE pc'[c] = l
  BY <1>1, <1>3 DEF Types, Goto
<1>4. ASSUME NEW t \in Callers \ {c}, via'[t] = via[t], late'[t] = late[t]
      PROVE  /\ pc'[t] = "dial" => via'[t] \in Inits /\ late'[t][via'[t]] = 0
             /\ \A i \in Inits : late'[t][i] > 0 => Gone(i)'
  BY <1>1, <1>2, <1>4, Sorts DEF Dialling
<1>5. CASE UNCHANGED <<via, late>> /\ pc'[c] # "dial"
  <2>1. \A t \in Callers : via'[t] = via[t] /\ late'[t] = late[t]
    BY <1>5
  <2>2. ASSUME c \in Callers
        PROVE  \A i \in Inits : late'[c][i] > 0 => Gone(i)'
    BY <1>1, <1>2, <1>5, <2>1, <2>2 DEF Dialling
  <2>3. QED
    BY <1>1, <1>4, <1>5, <2>1, <2>2 DEF Dialling, OneLateCallback
<1>6. CASE c \in Uses /\ CurrentPlugin(c) /\ UNCHANGED <<via, late>>
  BY <1>3, <1>5, <1>6 DEF CurrentPlugin, Labels
<1>7. CASE c \in Callers /\ ReadHost(c) /\ UNCHANGED <<mine, late>>
  <2>1. \A t \in Callers \ {c} : via'[t] = via[t]
    BY <1>1, <1>7 DEF ReadHost, Types
  <2>2. /\ via'[c] = host /\ pc[c] = "host"
        /\ pc'[c] = "work" \/ (pc'[c] = "dial" /\ host # None)
    BY <1>1, <1>3, <1>7 DEF ReadHost, Types, Labels
  <2>3. host # None => host \in Inits /\ ~Gone(host)
    <3>1. ASSUME NEW s \in Shutdowns, s \in answered PROVE Over(s)
      BY <1>1, <3>1, Sorts DEF Order, Over
    <3>2. QED
      BY <1>1, <3>1, Sorts DEF Types, HostPresent, Gone
  <2>4. pc'[c] = "dial" => via'[c] \in Inits /\ late'[c][via'[c]] = 0
    <3>1. \A i \in Inits : late[c][i] \in Nat /\ (late[c][i] > 0 => Gone(i))
      BY <1>1, <1>7 DEF Types, Dialling
    <3>2. QED
      BY <1>7, <2>2, <2>3, <3>1
  <2>5. QED
    BY <1>1, <1>2, <1>4, <1>7, <2>1, <2>4 DEF Dialling, OneLateCallback
<1>8. CASE c \in Callers /\ Dial(c) /\ UNCHANGED mine
  <2>1. pc[c] = "dial" /\ pc'[c] = "callback"
    BY <1>3, <1>8 DEF Dial, Labels
  <2>2. via[c] \in Inits /\ late[c][via[c]] = 0 /\ late[c] \in [Inits -> Nat]
    BY <1>1, <1>8, <2>1 DEF Dialling, Types
  <2>3. \/ late' = late
        \/ /\ late' = [late EXCEPT ![c] = [late[c] EXCEPT ![via[c]] = @ + 1]]
           /\ Gone(via[c])
    BY <1>8 DEF Dial, Lateness
  <2>4. /\ \A t \in Callers \ {c} : late'[t] = late[t]
        /\ \A i \in Inits \ {via[c]} : late'[c][i] = late[c][i]
        /\ late'[c][via[c]] = 0 \/ (late'[c][via[c]] = 1 /\ Gone(via[c]))
    BY <1>1, <1>8, <2>2, <2>3 DEF Types
  <2>5. \A t \in Callers \ {c} : via'[t] = via[t]
    BY <1>1, <1>8 DEF Dial, Types
  <2>6. \A i \in Inits : late'[c][i] > 0 => Gone(i)'
    BY <1>1, <1>2, <1>8, <2>4 DEF Dialling
  <2>7. OneLateCallback'
    BY <1>1, <2>4 DEF OneLateCallback
  <2>8. QED
    BY <1>1, <1>4, <1>8, <2>1, <2>4, <2>5, <2>6, <2>7 DEF Dialling
<1>9. CASE UsageKept(c)
  BY <1>5, <1>9 DEF UsageKept
<1>10. QED
  BY <1>6, <1>7, <1>8, <1>9, UsageFacts

\* What a use took is judged by the calls answered before it began: settled.
LEMMA StepRuns ==
  ASSUME IInv, NEW c \in Threads, Step(c)
  PROVE  RunsOnNewest'
<1>1. Types /\ Order /\ Newest /\ RunsOnNewest
  BY DEF IInv
<1>2. /\ before' = before /\ refused \subseteq refused'
      /\ \A d \in Calls : pc[d] # "idle" => pc'[d] # "idle"
  BY StepFacts, Sorts DEF Onward, Recorded
<1>3. \A w, u : Superseded(w, u)' => Superseded(w, u)
  BY <1>2 DEF Superseded
<1>4. ASSUME NEW u \in Uses, mine'[u] = mine[u]
      PROVE  /\ mine'[u] \in Registers => ~Superseded(mine[u], u)'
             /\ mine'[u] = None =>
                  \/ before'[u] \cap (Registers \ refused') = {}
                  \/ \E s \in Shutdowns : pc'[s] # "idle" /\ ~Superseded(s, u)'
  BY <1>1, <1>2, <1>3, <1>4, Sorts DEF RunsOnNewest
<1>5. CASE c \in Uses /\ CurrentPlugin(c)
  <2>1. /\ mine'[c] = plugin /\ \A u \in Uses \ {c} : mine'[u] = mine[u]
        /\ UNCHANGED <<refused, before>>
    BY <1>1, <1>5 DEF CurrentPlugin, Types, history
  <2>2. \A x \in before[c] \cap ((Registers \ refused) \cup Shutdowns) : x \in Calls /\ Replaced(x)
    <3>1. c \in Calls
      BY <1>5, Sorts
    <3>2. \A x \in before[c] : x \in Calls /\ Over(x)
      BY <1>1, <3>1 DEF Types, Order, Over
    <3>3. QED
      BY <3>2 DEF Replaced
  <2>3. plugin \in Registers => ~Superseded(plugin, c)
    BY <1>1, <2>2 DEF Newest, Superseded
  <2>4. plugin = None => \/ before[c] \cap (Registers \ refused) = {}
                         \/ \E s \in Shutdowns : pc[s] # "idle" /\ ~Superseded(s, c)
    BY <1>1, <2>2 DEF Newest, Superseded, Replaced, Over
  <2>5. /\ mine'[c] \in Registers => ~Superseded(mine[c], c)'
        /\ mine'[c] = None =>
             \/ before'[c] \cap (Registers \ refused') = {}
             \/ \E s \in Shutdowns : pc'[s] # "idle" /\ ~Superseded(s, c)'
    BY <1>2, <1>3, <2>1, <2>3, <2>4, Sorts
  <2>6. QED
    BY <1>4, <2>1, <2>5 DEF RunsOnNewest
<1>6. CASE UNCHANGED mine
  BY <1>4, <1>6 DEF RunsOnNewest
<1>7. QED
  BY <1>5, <1>6, UsageFacts DEF UsageKept

LEMMA StepKeeps == ASSUME IInv, NEW c \in Threads, Step(c) PROVE IInv'
BY StepTypes, StepOrder, StepLock, StepNewest, StepHost, StepTaking, StepDialling, StepRuns DEF IInv

-----------------------------------------------------------------------------
(* A call the host makes, and the invariant.                               *)

LEMMA StartKeeps ==
  ASSUME IInv, NEW c \in Calls, NEW p \in Callers \cup {None}, Start(c, p)
  PROVE  IInv'
<1> USE StartFacts
<1>1. Types /\ Order
  BY DEF IInv
<1>2. c \notin answered /\ \A d \in Calls : c \notin before[d]
  BY <1>1 DEF Order
<1>3. Types'
  <2>1. ASSUME NEW d \in Threads PROVE pc'[d] \in Places(d)
    <3>1. CASE d = c
      BY <3>1, Sorts DEF Places
    <3>2. CASE d # c
      BY <1>1, <3>2 DEF Types
    <3>3. QED
      BY <3>1, <3>2
  <2>2. parent' \in [Calls -> Callers \cup {None}]
    BY <1>1 DEF Types
  <2>3. before' \in [Calls -> SUBSET Calls]
    <3>1. answered \in SUBSET Calls /\ before \in [Calls -> SUBSET Calls]
      BY <1>1 DEF Types
    <3>2. before' = [before EXCEPT ![c] = answered]
      OBVIOUS
    <3> HIDE StartFacts
    <3>3. QED
      BY <3>1, <3>2
  <2>4. QED
    BY <1>1, <2>1, <2>2, <2>3 DEF Types
<1>4. Order'
  <2>1. ASSUME NEW d \in Calls
        PROVE  before'[d] \subseteq answered' /\ (pc'[d] = "idle" => before'[d] = {})
    <3>1. d \in Threads /\ before[d] \subseteq answered /\ (pc[d] = "idle" => before[d] = {})
      BY <1>1, Sorts DEF Order
    <3>2. QED
      BY <3>1
  <2>2. \A d \in answered' : d \in Calls /\ d # c
    BY <1>1, <1>2 DEF Types
  <2>3. \A d \in refused' : d \in Calls /\ Over(d)'
    BY <1>1, Sorts DEF Types, Order
  <2>4. ASSUME NEW d \in answered' PROVE pc'[d] = "done"
    <3>1. d \in answered /\ d \in Threads \ {c}
      BY <2>2, <2>4, Sorts
    <3>2. QED
      BY <1>1, <3>1 DEF Order
  <2>5. QED
    BY <2>1, <2>3, <2>4 DEF Order
<1>5. LockDiscipline'
  <2>1. \A d \in Threads : (pc'[d] \in {"current", "host"} <=> pc[d] \in {"current", "host"})
                           /\ (pc'[d] = "wait" <=> pc[d] = "wait")
                           /\ (pc'[d] = "write" <=> pc[d] = "write")
    OBVIOUS
  <2>2. QED
    BY <2>1, Sorts DEF IInv, LockDiscipline
<1>6. ~Over(c)
  BY DEF Over
<1>7. Newest'
  <2>1. plugin # None => plugin \in Calls
    BY <1>1, Sorts DEF Types
  <2>2. Newest /\ \A d \in Calls : Replaced(d) => before'[d] = before[d]
    BY <1>6 DEF IInv, Replaced
  <2>3. QED
    BY <2>1, <2>2, Sorts DEF Newest
<1>8. HostPresent'
  <2>1. host # None => host \in Calls
    BY <1>1, Sorts DEF Types
  <2>2. HostPresent /\ \A d \in Calls : Over(d) => before'[d] = before[d]
    BY <1>6 DEF IInv
  <2>3. QED
    BY <2>1, <2>2, Sorts DEF HostPresent
<1>9. \A s \in answered : s \in Calls /\ before'[s] = before[s]
  BY <1>1, <1>2 DEF Types
<1>10. Dialling'
  <2>1. \A i : Gone(i) => Gone(i)'
    BY <1>9 DEF Gone
  <2>2. Dialling
    BY DEF IInv
  <2>3. \A t \in Callers \ {c} : pc'[t] = pc[t]
    BY Sorts
  <2>4. QED
    BY <2>1, <2>2, <2>3 DEF Dialling
<1>11. RunsOnNewest'
  <2>1. RunsOnNewest /\ Taking
    BY DEF IInv
  <2>2. ASSUME NEW u \in Uses \ {c}, NEW w
        PROVE  before'[u] = before[u] /\ (Superseded(w, u)' => Superseded(w, u))
    <3>1. before'[u] = before[u] /\ before[u] \subseteq answered
      BY <1>1, <2>2, Sorts DEF Order
    <3>2. QED
      BY <1>9, <3>1 DEF Superseded
  <2>3. c \in Uses => mine[c] = Unread
    BY <2>1 DEF Taking
  <2>4. \A d \in Calls : pc[d] # "idle" => pc'[d] # "idle"
    BY Sorts
  <2>5. ASSUME NEW u \in Uses
        PROVE  /\ mine'[u] \in Registers => ~Superseded(mine[u], u)'
               /\ mine'[u] = None =>
                    \/ before'[u] \cap (Registers \ refused') = {}
                    \/ \E s \in Shutdowns : pc'[s] # "idle" /\ ~Superseded(s, u)'
    <3>1. CASE u = c
      BY <2>3, <3>1, Sorts
    <3>2. CASE u # c
      BY <2>1, <2>2, <2>4, <3>2, Sorts DEF RunsOnNewest
    <3>3. QED
      BY <3>1, <3>2
  <2>6. QED
    BY <2>5 DEF RunsOnNewest
<1>12. OneLateCallback'
  BY DEF IInv, OneLateCallback
<1>13. Taking'
  <2>1. Taking /\ \A u \in Uses \ {c} : pc'[u] = pc[u]
    BY Sorts DEF IInv
  <2>2. c \in Uses => mine[c] = Unread
    BY <2>1 DEF Taking
  <2>3. QED
    BY <2>1, <2>2 DEF Taking
<1>14. QED
  BY <1>3, <1>4, <1>5, <1>7, <1>8, <1>10, <1>11, <1>12, <1>13 DEF IInv

\* A goroutine that starts is where it holds nothing and has stored nothing.
LEMMA GoKeeps ==
  ASSUME IInv, NEW u \in Uses, NEW g \in Goroutines, Go(u, g)
  PROVE  IInv'
<1>1. /\ pc' = [pc EXCEPT ![g] = "work"] /\ pc[g] = "idle"
      /\ UNCHANGED <<host, plugin, readers, writer, queued, mine, via, late>>
      /\ UNCHANGED <<refused, parent, answered, before>>
  BY DEF Go, Goto, state, mutex, usage, history
<1>2. Types /\ Order
  BY DEF IInv
<1>3. /\ pc' \in [Threads -> Labels] /\ pc'[g] = "work"
      /\ \A d \in Threads \ {g} : pc'[d] = pc[d]
  BY <1>1, <1>2, Sorts DEF Types, Labels
<1>4. \A d \in Calls : pc'[d] = pc[d] /\ (Over(d)' <=> Over(d))
  BY <1>3, Sorts DEF Over
<1>5. \A d \in Calls : Replaced(d)' <=> Replaced(d)
  BY <1>1, <1>4 DEF Replaced
<1>6. Types'
  <2>1. \A d \in Threads : pc'[d] \in Places(d)
    BY <1>2, <1>3, Sorts DEF Types, Places
  <2>2. QED
    BY <1>1, <1>2, <1>3, <2>1 DEF Types
<1>7. Order'
  <2>1. \A d \in answered : d \in Calls
    BY <1>2 DEF Types
  <2>2. \A d \in refused : d \in Calls
    BY <1>2, Sorts DEF Types
  <2>3. QED
    BY <1>1, <1>2, <1>4, <2>1, <2>2 DEF Order
<1>8. LockDiscipline'
  <2>1. LockDiscipline
    BY DEF IInv
  <2>2. \A d \in Threads : /\ pc'[d] \in {"current", "host"} <=> pc[d] \in {"current", "host"}
                           /\ pc'[d] = "wait" <=> pc[d] = "wait"
                           /\ pc'[d] = "write" <=> pc[d] = "write"
    BY <1>1, <1>3
  <2>3. QED
    BY <1>1, <2>1, <2>2, Sorts DEF LockDiscipline
<1>9. Newest'
  <2>1. Newest /\ (plugin # None => plugin \in Calls)
    BY <1>2, Sorts DEF IInv, Types
  <2>2. QED
    BY <1>1, <1>4, <1>5, <2>1, Sorts DEF Newest
<1>10. HostPresent'
  <2>1. HostPresent /\ (host # None => host \in Calls)
    BY <1>2, Sorts DEF IInv, Types
  <2>2. QED
    BY <1>1, <1>4, <2>1, Sorts DEF HostPresent
<1>11. Taking'
  BY <1>1, <1>4, Sorts DEF IInv, Taking
<1>12. Dialling'
  <2>1. Dialling /\ \A i : Gone(i)' <=> Gone(i)
    BY <1>1 DEF IInv, Gone
  <2>2. \A t \in Callers : pc'[t] = "dial" => pc[t] = "dial"
    BY <1>3, Sorts
  <2>3. QED
    BY <1>1, <2>1, <2>2 DEF Dialling
<1>13. RunsOnNewest'
  <2>1. RunsOnNewest /\ \A w, v : Superseded(w, v)' <=> Superseded(w, v)
    BY <1>1 DEF IInv, Superseded
  <2>2. \A s \in Shutdowns : pc'[s] = pc[s]
    BY <1>4, Sorts
  <2>3. QED
    BY <1>1, <2>1, <2>2 DEF RunsOnNewest
<1>14. OneLateCallback'
  BY <1>1 DEF IInv, OneLateCallback
<1>15. QED
  BY <1>6, <1>7, <1>8, <1>9, <1>10, <1>11, <1>12, <1>13, <1>14 DEF IInv

LEMMA InitHolds == Init => IInv
<1> SUFFICES ASSUME Init PROVE IInv
  OBVIOUS
<1>1. (\A c \in Threads : pc[c] = "idle") /\ \A c \in Calls : pc[c] = "idle" /\ before[c] = {}
  BY Sorts DEF Init
<1>2. Types
  <2>1. pc \in [Threads -> Labels] /\ \A c \in Threads : pc[c] \in Places(c)
    BY DEF Init, Places, Labels
  <2>2. late \in [Callers -> [Inits -> Nat]]
    BY DEF Init
  <2>3. QED
    BY <2>1, <2>2 DEF Init, Types
<1>3. Order
  BY <1>1 DEF Init, Order
<1>4. LockDiscipline
  BY <1>1, Sorts DEF Init, LockDiscipline
<1>5. Newest /\ HostPresent
  BY <1>1, Sorts DEF Init, Newest, HostPresent, Replaced, Over
<1>6. Taking /\ Dialling /\ OneLateCallback
  BY <1>1, Sorts DEF Init, Taking, Dialling, OneLateCallback
<1>7. RunsOnNewest
  BY Sorts DEF Init, RunsOnNewest
<1>8. QED
  BY <1>2, <1>3, <1>4, <1>5, <1>6, <1>7 DEF IInv

LEMMA NextKeeps == IInv /\ [Next]_vars => IInv'
<1> SUFFICES ASSUME IInv, [Next]_vars PROVE IInv'
  OBVIOUS
<1>1. CASE UNCHANGED vars
  <2> USE <1>1 DEF vars, state, mutex, usage, history, IInv
  <2>1. Types'
    BY DEF Types
  <2>2. Order' /\ LockDiscipline' /\ OneLateCallback'
    BY DEF Order, LockDiscipline, OneLateCallback, Over
  <2>3. Newest' /\ HostPresent'
    BY DEF Newest, HostPresent, Replaced, Over
  <2>4. Dialling' /\ RunsOnNewest'
    BY DEF Dialling, RunsOnNewest, Gone, Superseded
  <2>5. Taking'
    BY DEF Taking
  <2>6. QED
    BY <2>1, <2>2, <2>3, <2>4, <2>5
<1>2. ASSUME NEW c \in Threads, Step(c) PROVE IInv'
  BY <1>2, StepKeeps
<1>3. ASSUME NEW c \in Calls, NEW p \in Callers \cup {None}, Start(c, p) PROVE IInv'
  BY <1>3, StartKeeps
<1>4. ASSUME NEW u \in Uses, NEW g \in Goroutines, Go(u, g) PROVE IInv'
  BY <1>4, GoKeeps
<1>5. QED
  BY <1>1, <1>2, <1>3, <1>4 DEF Next, Quiet

THEOREM Invariance == Spec => []IInv
<1>1. Init => IInv
  BY InitHolds
<1>2. IInv /\ [Next]_vars => IInv'
  BY NextKeeps
<1>3. QED
  BY <1>1, <1>2, PTL DEF Spec

\* The state keeps its shape (abi.go).
THEOREM TypeCorrect == Spec => []TypeOK
<1>1. IInv => TypeOK
  <2>1. ASSUME IInv PROVE readers \subseteq Callers /\ queued \subseteq Writers
    BY <2>1 DEF IInv, LockDiscipline
  <2>2. QED
    BY <2>1 DEF IInv, Types, TypeOK, Labels
<1>2. QED
  BY <1>1, Invariance, PTL

\* The lock is held only to read or to store, never by a reader and a writer at
\* once, and never across a callback (abi.go:317-320, 337-343, 461-485).
THEOREM LockIsDisciplined == Spec => []LockDiscipline
<1>1. IInv => LockDiscipline
  BY DEF IInv
<1>2. QED
  BY <1>1, Invariance, PTL

\* No call runs on a configuration that was replaced before it began, or is
\* refused although one was in force (abi.go:308-320, 337-343).
THEOREM CallsRunOnNewest == Spec => []RunsOnNewest
<1>1. IInv => RunsOnNewest
  BY DEF IInv
<1>2. QED
  BY <1>1, Invariance, PTL

\* However often hosts come and go, the thread of each use and each goroutine it
\* starts make at most one callback to a host that has seen the shutdown return
\* (abi.go:369, 420, 461-485).
THEOREM CallbacksAreLateOnce == Spec => []OneLateCallback
<1>1. IInv => OneLateCallback
  BY DEF IInv
<1>2. QED
  BY <1>1, Invariance, PTL

=============================================================================
