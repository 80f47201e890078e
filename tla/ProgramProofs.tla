--------------------------- MODULE ProgramProofs ---------------------------
(***************************************************************************)
(* Proofs about Program and, at the end, about Scheduler, which Program    *)
(* starts and stops: for any number of threads, jobs and restarts, and     *)
(* whatever the user, the system and the threads do.                       *)
(*                                                                         *)
(* That Active tells whether P2P runs holds outside of StartP2P and StopP2P*)
(* only.  What is inductive says how far the innermost call of the window  *)
(* thread has got with the server and the scheduler, and that nothing is on*)
(* top of a StartP2P or StopP2P but the restart that its ChangeTrayIcon    *)
(* asks for: it takes no messages, so that no other one begins above it.   *)
(* When FinalizeAppThread calls StopP2P in a thread of its own, this is no *)
(* longer so.                                                              *)
(***************************************************************************)
EXTENDS Program, Scheduler, SequenceTheorems, TLAPS

-----------------------------------------------------------------------------
(* The parts of the invariant of Program. *)

(* A call that takes no messages has nothing above it but a restart. *)
Covered == \A k \in DOMAIN stack : k # Len(stack) => Covers(stack[k])

StackOK == stack \in Seq(Frame) /\ Covered

P2PFlags ==
    /\ active \in BOOLEAN /\ haltTarget \in BOOLEAN /\ recent \in BOOLEAN /\ crossed \in BOOLEAN
    /\ server \in {"off", "on", "stopping"} /\ sched \in {"off", "on", "stopping"}
DlgFlags == dlg \in {"none", "task", "exit"} /\ progress \in BOOLEAN /\ stoppable \in BOOLEAN
TaskFlags ==
    /\ rebuild \in {"off", "begin", "scan", "swap"} /\ loop \in BOOLEAN
    /\ reindex \in {"off", "run", "end"} /\ again \in BOOLEAN
PowerFlags ==
    /\ stopBySuspend \in BOOLEAN /\ resumeTimer \in BOOLEAN
    /\ power \in {"awake", "asking", "resumed", "ending"} /\ owed \in {"no", "asked", "slept"}
EndFlags ==
    /\ fin \in {"off", "rebuild", "server", "jobs", "close", "last", "ended"}
    /\ life \in {"run", "over", "fallen"}

Flags == P2PFlags /\ DlgFlags /\ TaskFlags /\ PowerFlags /\ EndFlags

Rest ==
    /\ queue \in Seq(Posted)
    /\ worker \in [Worker -> {"idle", "work", "send"}]
    /\ events \in 0..MaxEvents

(* TypeOK in parts. *)
LEMMA TypeParts == TypeOK <=> StackOK /\ Flags /\ Rest
  BY DEF TypeOK, StackOK, Covered, Flags, P2PFlags, DlgFlags, TaskFlags, PowerFlags, EndFlags, Rest

(* Who works can work. *)
Busy ==
    /\ \A p \in Parser : worker[p] # "idle" => server # "off"
    /\ \A j \in JobThread : worker[j] # "idle" => sched # "off"

(* A StartP2P or StopP2P that has begun its work and not yet come to what  *)
(* it says of it.                                                          *)
Middle(f) == f.call \in Stopping \cup {"start"} /\ f.at \in {"server", "jobs", "icon"}

(* What it has done of it, ... *)
HalfWay(f) ==
    \/ f.call \in Stopping /\ f.at = "server" /\ server = "stopping" /\ sched = "on"
    \/ f.call \in Stopping /\ f.at = "jobs" /\ server = "off" /\ sched = "stopping"
    \/ f.call \in Stopping /\ f.at = "icon" /\ server = "off" /\ sched = "off"
    \/ f.call = "start" /\ f.at = "icon" /\ server = "on" /\ sched = "on"

(* ... and how the server, the scheduler and Active go together when there *)
(* is none, until the end begins.                                          *)
Even == server = sched /\ sched \in {"on", "off"}
Told == crossed \/ active = (sched = "on")

Calm == stack = <<>> \/ ~Middle(Last(stack))

InStep ==
    fin = "off" =>
        /\ life = "run"
        /\ IF Calm THEN Even /\ Told ELSE HalfWay(Last(stack))

IInv == StackOK /\ Flags /\ Rest /\ Busy /\ InStep

-----------------------------------------------------------------------------
(* The stack. *)

(* A call can be made. *)
Open == stack = <<>> \/ Covers(Last(stack))

(* The innermost call is f. *)
Inner(f) == stack # <<>> /\ Last(stack) = f

(* A call is made. *)
LEMMA Pushed ==
    ASSUME StackOK, Open, NEW f \in Frame, stack' = Append(stack, f)
    PROVE  StackOK' /\ Inner(f)'
<1>1. stack' \in Seq(Frame) /\ Len(stack') = Len(stack) + 1 /\ Len(stack) \in Nat
  BY DEF StackOK
<1>2. stack'[Len(stack')] = f /\ stack' # <<>>
  BY <1>1 DEF StackOK
<1>3. ASSUME NEW k \in 1..Len(stack)  PROVE Covers(stack'[k])
  <2>1. stack'[k] = stack[k]
    BY DEF StackOK
  <2>2. CASE k # Len(stack)
    BY <2>1, <2>2 DEF StackOK, Covered
  <2>3. CASE k = Len(stack)
    BY <2>1, <2>3 DEF StackOK, Open, Last
  <2>4. QED  BY <2>2, <2>3
<1>4. DOMAIN stack' = 1..Len(stack) + 1
  BY <1>1
<1>5. Covered'
  BY <1>1, <1>3, <1>4 DEF Covered
<1>6. QED  BY <1>1, <1>2, <1>5 DEF StackOK, Inner, Last

(* What is left below the innermost call. *)
LEMMA FrontOf ==
    ASSUME StackOK, stack # <<>>
    PROVE  /\ Front(stack) \in Seq(Frame)
           /\ Len(Front(stack)) = Len(stack) - 1 /\ Len(Front(stack)) \in Nat
           /\ \A k \in 1..Len(Front(stack)) :
                 Front(stack)[k] = stack[k] /\ Covers(Front(stack)[k])
<1>1. Len(stack) \in Nat \ {0} /\ stack \in Seq(Frame)
  BY DEF StackOK
<1>2. \A k \in 1..Len(stack) - 1 : stack[k] \in Frame
  BY <1>1
<1>3. /\ Front(stack) \in Seq(Frame) /\ Len(Front(stack)) = Len(stack) - 1
      /\ \A k \in 1..Len(stack) - 1 : Front(stack)[k] = stack[k]
  <2> DEFINE n == Len(stack) - 1
  <2>1. n \in Int /\ n \in Nat /\ (\A k \in 1..n : stack[k] \in Frame)
    BY <1>1, <1>2
  <2>2. Front(stack) = SubSeq(stack, 1, n)
    BY DEF Front
  <2> HIDE DEF n
  <2>3. /\ SubSeq(stack, 1, n) \in Seq(Frame)
        /\ Len(SubSeq(stack, 1, n)) = IF 1 <= n THEN n - 1 + 1 ELSE 0
        /\ \A k \in 1..n - 1 + 1 : SubSeq(stack, 1, n)[k] = stack[1 + k - 1]
    BY <2>1, SubSeqProperties
  <2>4. n - 1 + 1 = n /\ (1 <= n \/ n = 0) /\ \A k \in 1..n : 1 + k - 1 = k
    BY <2>1
  <2>5. Len(Front(stack)) = n /\ \A k \in 1..n : Front(stack)[k] = stack[k]
    BY <2>1, <2>2, <2>3, <2>4
  <2>6. QED  BY <2>2, <2>3, <2>5 DEF n
<1>4. \A k \in 1..Len(stack) - 1 : Covers(stack[k])
  BY <1>1 DEF StackOK, Covered
<1>5. QED  BY <1>1, <1>3, <1>4

(* A call returns. *)
LEMMA Popped ==
    ASSUME StackOK, stack # <<>>, stack' = Front(stack)
    PROVE  StackOK' /\ Open'
<1> DEFINE s == Front(stack)
<1>1. s \in Seq(Frame) /\ Len(s) \in Nat /\ \A k \in 1..Len(s) : Covers(s[k])
  BY FrontOf
<1>2. stack' = s
  OBVIOUS
<1> HIDE DEF s
<1>3. StackOK'
  BY <1>1, <1>2 DEF StackOK, Covered
<1>4. stack' # <<>> => Covers(stack'[Len(stack')])
  <2>1. s # <<>> => Len(s) \in 1..Len(s)
    BY <1>1
  <2>2. QED  BY <2>1, <1>1, <1>2
<1>5. QED  BY <1>3, <1>4 DEF Open, Last

(* A call becomes another one, or gets further. *)
LEMMA Replaced ==
    ASSUME StackOK, stack # <<>>, NEW f \in Frame, stack' = Append(Front(stack), f)
    PROVE  StackOK' /\ Inner(f)'
<1> DEFINE s == Front(stack)
<1>1. s \in Seq(Frame) /\ Len(s) \in Nat /\ \A k \in 1..Len(s) : Covers(s[k])
  BY FrontOf
<1> HIDE DEF s
<1>2. stack' = Append(s, f)
  BY DEF s
<1>3. stack' \in Seq(Frame) /\ Len(stack') = Len(s) + 1 /\ DOMAIN stack' = 1..Len(s) + 1
  BY <1>1, <1>2
<1>4. stack'[Len(stack')] = f /\ stack' # <<>> /\ \A k \in 1..Len(s) : stack'[k] = s[k]
  BY <1>1, <1>2, <1>3
<1>5. Covered'
  BY <1>1, <1>3, <1>4 DEF Covered
<1>6. QED  BY <1>3, <1>4, <1>5 DEF StackOK, Inner, Last

(* A call gets further and makes one. *)
LEMMA Restarted ==
    ASSUME StackOK, stack # <<>>, NEW f \in Frame, Covers(f), NEW g \in Frame,
           stack' = Append(Append(Front(stack), f), g)
    PROVE  StackOK' /\ Inner(g)'
<1> DEFINE s == Front(stack)
<1>1. s \in Seq(Frame) /\ Len(s) \in Nat /\ \A k \in 1..Len(s) : Covers(s[k])
  BY FrontOf
<1> HIDE DEF s
<1> DEFINE t == Append(s, f)
<1>2. t \in Seq(Frame) /\ Len(t) = Len(s) + 1 /\ t[Len(s) + 1] = f /\ \A k \in 1..Len(s) : t[k] = s[k]
  BY <1>1
<1>3. Len(t) \in Nat /\ \A k \in 1..Len(t) : Covers(t[k])
  <2>1. ASSUME NEW k \in 1..Len(s) + 1 PROVE Covers(t[k])
    <3>1. k \in 1..Len(s) \/ k = Len(s) + 1
      BY <1>1
    <3>2. QED  BY <1>1, <1>2, <3>1
  <2>2. QED  BY <1>1, <1>2, <2>1
<1>4. stack' = Append(t, g)
  BY DEF s
<1> HIDE DEF t
<1>5. stack' \in Seq(Frame) /\ Len(stack') = Len(t) + 1 /\ DOMAIN stack' = 1..Len(t) + 1
  BY <1>2, <1>3, <1>4
<1>6. stack'[Len(stack')] = g /\ stack' # <<>> /\ \A k \in 1..Len(t) : stack'[k] = t[k]
  BY <1>2, <1>3, <1>4, <1>5
<1>7. Covered'
  BY <1>3, <1>5, <1>6 DEF Covered
<1>8. QED  BY <1>5, <1>6, <1>7 DEF StackOK, Inner, Last

(* What is on top of it is a frame; nothing is when it is empty. *)
LEMMA TopOf ==
    ASSUME StackOK, Top # "loop"
    PROVE  /\ stack # <<>> /\ Last(stack) \in Frame /\ Top = Last(stack).call
           /\ Last(stack) = [call |-> Top, at |-> Last(stack).at]
<1>1. stack # <<>> /\ Top = Last(stack).call
  BY DEF Top
<1>2. Last(stack) \in Frame
  BY <1>1 DEF StackOK, Last
<1>3. QED  BY <1>1, <1>2 DEF Frame

(* The stack is left alone. *)
LEMMA SameStack ==
    ASSUME StackOK, stack' = stack
    PROVE  StackOK' /\ Top' = Top /\ Last(stack)' = Last(stack) /\ (Calm <=> Calm')
  BY DEF StackOK, Covered, Top, Last, Calm

(* The frames. *)
LEMMA Frames ==
    /\ \A c \in Stopping, at \in {"server", "jobs", "icon", "restarted"} : [call |-> c, at |-> at] \in Frame
    /\ \A c \in {"ask", "option", "box", "cancel", "exit"} : [call |-> c, at |-> "-"] \in Frame
    /\ \A at \in {"active", "inactive"} : [call |-> "menu", at |-> at] \in Frame
    /\ \A at \in {"begin", "icon", "restarted"} : [call |-> "start", at |-> at] \in Frame
    /\ \A at \in {"icon", "restarted"} : [call |-> "tray", at |-> at] \in Frame
  BY DEF Frame

(* What a call that can have another above it is not in. *)
LEMMA OpenCalm == Open => Calm
  BY DEF Open, Calm, Covers, Middle, P2PCall

(* Where messages are handled, a call may be made. *)
LEMMA HandlesOpen == Handles => Open
  BY DEF Handles, Open, Covers, Top, P2PCall, Stopping

-----------------------------------------------------------------------------
(* What becomes of the stack and of P2P. *)

Same == UNCHANGED <<active, server, sched, crossed, worker, fin, life>>

(* Neither the stack nor what StopP2P waits for is touched. *)
LEMMA UnmovedKept ==
    ASSUME IInv, stack' = stack, Same
    PROVE  StackOK' /\ Busy' /\ InStep'
<1>1. StackOK' /\ Last(stack)' = Last(stack) /\ (Calm <=> Calm')
  BY SameStack DEF IInv
<1>2. Busy'
  BY DEF IInv, Same, Busy
<1>3. InStep'
  BY <1>1 DEF IInv, Same, InStep, Even, Told, HalfWay
<1>4. QED  BY <1>1, <1>2, <1>3

(* From one call that is not in the middle to another. *)
LEMMA CalmKept ==
    ASSUME IInv, Calm, Same, Calm'
    PROVE  Busy' /\ InStep'
<1>1. Busy'
  BY DEF IInv, Same, Busy
<1>2. InStep'
  BY DEF IInv, Same, InStep, Even, Told
<1>3. QED  BY <1>1, <1>2

(* A call that does not begin a StopP2P. *)
LEMMA PushKept ==
    ASSUME IInv, Open, Same, NEW f \in Frame, ~Middle(f), stack' = Append(stack, f)
    PROVE  StackOK' /\ Busy' /\ InStep'
<1>1. StackOK' /\ Inner(f)'
  BY Pushed DEF IInv
<1>2. Calm'
  BY <1>1 DEF Inner, Calm
<1>3. QED  BY <1>1, <1>2, OpenCalm, CalmKept

(* A call returns that was in the middle of nothing. *)
LEMMA PopKept ==
    ASSUME IInv, stack # <<>>, ~Middle(Last(stack)), Same, Pop
    PROVE  StackOK' /\ Busy' /\ InStep'
<1>1. StackOK' /\ Open'
  BY Popped DEF IInv, Pop
<1>2. Calm'
  BY <1>1 DEF Open, Calm, Covers, Middle, P2PCall
<1>3. QED  BY <1>1, <1>2, CalmKept DEF Calm

(* StopP2P begins. *)
LEMMA BeginKept ==
    ASSUME IInv, fin = "off" => Even, NEW call \in Stopping, NEW at \in {"server", "jobs"},
           StopBegins(at), Inner([call |-> call, at |-> at])', UNCHANGED <<worker, fin, life>>
    PROVE  Busy' /\ InStep'
<1> DEFINE f == [call |-> call, at |-> at]
<1>1. Busy'
  BY DEF IInv, Busy, StopBegins
<1>2. f.call = call /\ f.at = at /\ Last(stack)' = f /\ stack' # <<>>
  BY DEF Inner
<1> HIDE DEF f
<1>3. ~Calm'
  BY <1>2 DEF Calm, Middle
<1>4. ASSUME fin = "off" PROVE HalfWay(Last(stack))'
  <2>1. HalfWay(f)'
    BY <1>2, <1>4 DEF StopBegins, Even, HalfWay
  <2>2. QED  BY <1>2, <2>1 DEF HalfWay
<1>5. QED  BY <1>1, <1>3, <1>4 DEF IInv, InStep

(* The window thread calls StopP2P. *)
LEMMA StopKept ==
    ASSUME IInv, Open, NEW call \in Stopping, NEW at \in {"server", "jobs"},
           StopBegins(at), Push(call, at), UNCHANGED <<worker, fin, life>>
    PROVE  StackOK' /\ Busy' /\ InStep'
<1>1. [call |-> call, at |-> at] \in Frame
  BY Frames
<1>2. StackOK' /\ Inner([call |-> call, at |-> at])'
  BY <1>1, Pushed DEF IInv, Push
<1>3. fin = "off" => Even
  BY OpenCalm DEF IInv, InStep
<1>4. QED  BY <1>2, <1>3, BeginKept

(* When the end has begun, all that is left to see to is the stack. *)
LEMMA LateKept ==
    ASSUME IInv, fin' # "off", stack' = stack, UNCHANGED <<server, sched, worker>>
    PROVE  StackOK' /\ Busy' /\ InStep'
  BY SameStack DEF IInv, Busy, InStep
-----------------------------------------------------------------------------
(* StartP2P and StopP2P of the window thread. *)

(* It is in one of them. *)
LEMMA InCallTop ==
    ASSUME StackOK, NEW calls \in SUBSET P2PCall, NEW at, InCall(calls, at)
    PROVE  /\ stack # <<>> /\ Top \in calls /\ Last(stack) \in Frame
           /\ Last(stack) = [call |-> Top, at |-> at] /\ Last(stack).call = Top /\ Last(stack).at = at
  BY TopOf DEF InCall, P2PCall, Stopping, Deleted

(* A StopP2P goes on. *)
LEMMA StopServerKept ==
    ASSUME IInv, StopServer
    PROVE  StackOK' /\ Busy' /\ InStep'
<1>1. stack # <<>> /\ Top \in Stopping /\ Become(Top, "jobs")
  BY InCallTop DEF StopServer, IInv, P2PCall
<1>2. PICK f \in Frame : f.call = Top /\ f.at = "jobs" /\ stack' = Append(Front(stack), f)
  BY <1>1, Frames DEF Become
<1>3. StackOK' /\ Inner(f)'
  BY <1>1, <1>2, Replaced DEF IInv
<1>4. Busy'
  BY DEF StopServer, ServerStopped, InCallFrame, IInv, Busy
<1>5. HalfWay(Last(stack))' /\ ~Calm'
  BY <1>1, <1>2, <1>3 DEF StopServer, ServerStopped, HalfWay, Inner, Calm, Middle
<1>6. InStep'
  BY <1>5 DEF StopServer, InCallFrame, IInv, InStep
<1>7. QED  BY <1>3, <1>4, <1>6

LEMMA StopJobsKept ==
    ASSUME IInv, StopJobs
    PROVE  StackOK' /\ Busy' /\ InStep'
<1>1. /\ stack # <<>> /\ Top \in Stopping /\ Become(Top, "icon")
      /\ Last(stack).call = Top /\ Last(stack).at = "jobs"
  BY InCallTop DEF StopJobs, IInv, P2PCall
<1>2. PICK f \in Frame : f.call = Top /\ f.at = "icon" /\ stack' = Append(Front(stack), f)
  BY <1>1, Frames DEF Become
<1>3. StackOK' /\ Inner(f)'
  BY <1>1, <1>2, Replaced DEF IInv
<1>4. Busy'
  BY DEF StopJobs, JobsStopped, InCallFrame, IInv, Busy
<1>5. fin = "off" => server = "off"
  BY <1>1 DEF IInv, InStep, Calm, Middle, HalfWay, Stopping
<1>6. fin = "off" => HalfWay(Last(stack))' /\ ~Calm'
  BY <1>1, <1>2, <1>3, <1>5 DEF StopJobs, JobsStopped, HalfWay, Inner, Calm, Middle
<1>7. InStep'
  BY <1>6 DEF StopJobs, InCallFrame, IInv, InStep
<1>8. QED  BY <1>3, <1>4, <1>7

(* The icon restarts P2P. *)
LEMMA ChangeTrayIconKept ==
    ASSUME IInv, ChangeTrayIcon
    PROVE  StackOK' /\ Busy' /\ InStep'
<1>1. PICK at \in {"server", "jobs"} :
         /\ StopBegins(at)
         /\ stack' = Append(Append(Front(stack), [Last(stack) EXCEPT !.at = "restarted"]),
                            [call |-> "restart", at |-> at])
  BY DEF ChangeTrayIcon
<1> DEFINE f == [Last(stack) EXCEPT !.at = "restarted"]
           g == [call |-> "restart", at |-> at]
<1>2. stack # <<>> /\ Top \in P2PCall /\ Last(stack) = [call |-> Top, at |-> "icon"]
      /\ Last(stack).call = Top /\ Last(stack).at = "icon"
  BY InCallTop DEF ChangeTrayIcon, IInv
<1>3. f = [call |-> Top, at |-> "restarted"] /\ f.call = Top /\ f.at = "restarted"
  BY <1>2
<1>4. f \in Frame /\ Covers(f)
  BY <1>2, <1>3, Frames DEF Covers, P2PCall, Stopping
<1>5. g \in Frame /\ "restart" \in Stopping
  BY Frames DEF Stopping
<1> HIDE DEF f
<1>6. StackOK' /\ Inner(g)'
  BY <1>1, <1>2, <1>4, <1>5, Restarted DEF IInv, f
<1>7. fin = "off" => Even
  BY <1>2 DEF IInv, InStep, HalfWay, Even
<1>8. UNCHANGED <<worker, fin, life>>
  BY DEF ChangeTrayIcon, InCallFrame
<1>9. Busy' /\ InStep'
  BY <1>1, <1>5, <1>6, <1>7, <1>8, BeginKept
<1>10. QED  BY <1>6, <1>9

(* A call ends in which ChangeTrayIcon has come back. *)
LEMMA ReturnKept ==
    ASSUME IInv, StackOK', Calm', UNCHANGED <<server, sched, worker, fin, life>>,
           fin = "off" => Even /\ Told'
    PROVE  Busy' /\ InStep'
  BY DEF IInv, Busy, InStep, Even

LEMMA LeaveStopKept ==
    ASSUME IInv, LeaveStopP2P
    PROVE  StackOK' /\ Busy' /\ InStep'
<1>1. PICK at \in {"icon", "restarted"} : InCall(Stopping, at) /\ crossed' = (at = "restarted")
  BY DEF LeaveStopP2P
<1>2. /\ stack # <<>> /\ Top \in Stopping /\ Last(stack) \in Frame
      /\ Last(stack).call = Top /\ Last(stack).at = at
  BY <1>1, InCallTop DEF IInv, P2PCall
<1>3. StackOK' /\ Calm'
  <2>1. CASE Pop
    <3>1. StackOK' /\ Open'
      BY <1>2, <2>1, Popped DEF IInv, Pop
    <3>2. QED  BY <3>1 DEF Open, Calm, Covers, Middle, P2PCall
  <2>2. ASSUME NEW f \in Frame, ~Middle(f), stack' = Append(Front(stack), f)
        PROVE  StackOK' /\ Calm'
    <3>1. StackOK' /\ Inner(f)'
      BY <1>2, <2>2, Replaced DEF IInv
    <3>2. QED  BY <2>2, <3>1 DEF Inner, Calm
  <2>3. CASE Become("tray", "icon")
    <3> DEFINE f == [call |-> "tray", at |-> "icon"]
    <3>1. f \in Frame /\ ~Middle(f)
      BY Frames DEF Middle, Stopping
    <3>2. QED  BY <2>2, <2>3, <3>1 DEF Become
  <2>4. CASE Become("start", "begin")
    <3> DEFINE f == [call |-> "start", at |-> "begin"]
    <3>1. f \in Frame /\ ~Middle(f)
      BY Frames DEF Middle, Stopping
    <3>2. QED  BY <2>2, <2>4, <3>1 DEF Become
  <2>5. QED  BY <2>1, <2>3, <2>4 DEF LeaveStopP2P
<1>4. fin = "off" => Even /\ Told'
  <2>1. CASE at = "icon"
    BY <1>1, <1>2, <2>1 DEF LeaveStopP2P, IInv, InStep, Calm, Middle, HalfWay, Even, Told, Stopping
  <2>2. CASE at = "restarted"
    BY <1>1, <1>2, <2>2 DEF IInv, InStep, Calm, Middle, Told
  <2>3. QED  BY <2>1, <2>2
<1>5. QED  BY <1>3, <1>4, ReturnKept DEF LeaveStopP2P, InCallFrame

LEMMA StartKept ==
    ASSUME IInv, StartP2P
    PROVE  StackOK' /\ Busy' /\ InStep'
<1>1. /\ stack # <<>> /\ Last(stack) \in Frame
      /\ Last(stack).call = "start" /\ Last(stack).at = "begin"
  <2>1. InCall({"start"}, "begin") /\ {"start"} \in SUBSET P2PCall
    BY DEF StartP2P, P2PCall
  <2>2. QED  BY <2>1, InCallTop DEF IInv
<1>2. Calm
  BY <1>1 DEF Calm, Middle
<1>3. CASE Become("box", "-") /\ UNCHANGED <<server, sched>>
  <2> DEFINE f == [call |-> "box", at |-> "-"]
  <2>1. f \in Frame /\ ~Middle(f)
    BY Frames DEF Middle, Stopping
  <2>2. StackOK' /\ Inner(f)'
    BY <1>1, <1>3, <2>1, Replaced DEF IInv, Become
  <2>3. Calm'
    BY <2>1, <2>2 DEF Inner, Calm
  <2>4. Same
    BY <1>3 DEF StartP2P, InCallFrame, Same
  <2>5. QED  BY <1>2, <2>2, <2>3, <2>4, CalmKept
<1>4. CASE Become("start", "icon") /\ server' = "on" /\ sched' = "on"
  <2> DEFINE f == [call |-> "start", at |-> "icon"]
  <2>1. f \in Frame /\ f.call = "start" /\ f.at = "icon"
    BY Frames
  <2>2. StackOK' /\ Inner(f)'
    BY <1>1, <1>4, <2>1, Replaced DEF IInv, Become
  <2>3. ~Calm' /\ HalfWay(Last(stack))'
    BY <1>4, <2>1, <2>2 DEF Inner, Calm, Middle, HalfWay
  <2>4. Busy' /\ InStep'
    BY <1>4, <2>3 DEF StartP2P, InCallFrame, IInv, Busy, InStep
  <2>5. QED  BY <2>2, <2>4
<1>5. QED  BY <1>3, <1>4 DEF StartP2P

LEMMA LeaveStartKept ==
    ASSUME IInv, LeaveStartP2P
    PROVE  StackOK' /\ Busy' /\ InStep'
<1>1. PICK at \in {"icon", "restarted"} : InCall({"start"}, at) /\ crossed' = (at = "restarted")
  BY DEF LeaveStartP2P
<1>2. stack # <<>> /\ Last(stack).call = "start" /\ Last(stack).at = at
  <2>1. {"start"} \in SUBSET P2PCall
    BY DEF P2PCall
  <2>2. QED  BY <1>1, <2>1, InCallTop DEF IInv
<1>3. StackOK' /\ Calm'
  <2>1. StackOK' /\ Open'
    BY <1>2, Popped DEF LeaveStartP2P, IInv, Pop
  <2>2. QED  BY <2>1 DEF Open, Calm, Covers, Middle, P2PCall
<1>4. fin = "off" => Even /\ Told'
  <2>1. CASE at = "icon"
    BY <1>1, <1>2, <2>1 DEF LeaveStartP2P, IInv, InStep, Calm, Middle, HalfWay, Even, Told, Stopping
  <2>2. CASE at = "restarted"
    BY <1>1, <1>2, <2>2 DEF IInv, InStep, Calm, Middle, Told
  <2>3. QED  BY <2>1, <2>2
<1>5. QED  BY <1>3, <1>4, ReturnKept DEF LeaveStartP2P, InCallFrame

LEMMA LeaveTrayKept ==
    ASSUME IInv, LeaveTray
    PROVE  StackOK' /\ Busy' /\ InStep'
<1>1. stack # <<>> /\ ~Middle(Last(stack))
  <2>1. PICK at \in {"icon", "restarted"} : InCall({"tray"}, at)
    BY DEF LeaveTray
  <2>2. {"tray"} \in SUBSET P2PCall
    BY DEF P2PCall
  <2>3. stack # <<>> /\ Last(stack).call = "tray"
    BY <2>1, <2>2, InCallTop DEF IInv
  <2>4. QED  BY <2>3 DEF Middle, Stopping
<1>2. QED  BY <1>1, PopKept DEF LeaveTray, InCallFrame, p2pVars, Same

LEMMA P2PCallsKept ==
    ASSUME IInv, P2PCalls
    PROVE  StackOK' /\ Busy' /\ InStep'
  BY StopServerKept, StopJobsKept, ChangeTrayIconKept, LeaveStopKept, StartKept, LeaveStartKept,
     LeaveTrayKept DEF P2PCalls

-----------------------------------------------------------------------------
(* What the window thread does for a posted message. *)

(* FinalizeApp, the first time and again. *)
LEMMA FinalizeAppKept ==
    ASSUME IInv, Open, FinalizeApp
    PROVE  StackOK' /\ Busy' /\ InStep'
<1>1. CASE fin = "off" /\ fin' = "rebuild" /\ Push("exit", "-") /\ UNCHANGED <<p2pVars, worker>>
  <2>1. StackOK'
    BY <1>1, Pushed, Frames DEF IInv, Push
  <2>2. Busy' /\ InStep'
    BY <1>1 DEF IInv, p2pVars, Busy, InStep
  <2>3. QED  BY <2>1, <2>2
<1>2. CASE fin # "off" /\ UNCHANGED <<stack, p2pVars, worker, fin>>
  BY <1>2, LateKept DEF p2pVars
<1>3. QED  BY <1>1, <1>2 DEF FinalizeApp

LEMMA FallKept ==
    ASSUME IInv, Deleted, Fall
    PROVE  StackOK' /\ Busy' /\ InStep'
  BY LateKept DEF Deleted, Fall, p2pVars

LEMMA MessageKept ==
    ASSUME IInv, Handles, UNCHANGED <<worker, life>>,
           OnStart \/ OnStop \/ OnRebuild \/ OnReindex \/ OnOption \/ OnHalt
    PROVE  StackOK' /\ Busy' /\ InStep'
<1> USE HandlesOpen
<1>1. CASE Ignore
  BY <1>1, UnmovedKept DEF Ignore, p2pVars, Same
<1>2. ASSUME NEW f \in Frame, ~Middle(f), stack' = Append(stack, f), UNCHANGED <<p2pVars, fin>>
      PROVE  StackOK' /\ Busy' /\ InStep'
  BY <1>2, PushKept DEF p2pVars, Same
<1>3. CASE OnStart
  <2> DEFINE f == [call |-> "start", at |-> "begin"]
  <2>1. f \in Frame /\ ~Middle(f)
    BY Frames DEF Middle, Stopping
  <2>2. QED  BY <1>2, <1>3, <2>1 DEF OnStart, Push
<1>4. ASSUME NEW call \in Stopping, Stop(call), UNCHANGED fin
      PROVE  StackOK' /\ Busy' /\ InStep'
  BY <1>4, StopKept DEF Stop
<1>5. CASE OnStop
  BY <1>4, <1>5 DEF OnStop, Stopping
<1>6. CASE OnReindex
  BY <1>1, <1>6, UnmovedKept DEF OnReindex, p2pVars, Same
<1>7. ASSUME NEW call \in {"ask", "option"}, Push(call, "-"), UNCHANGED <<p2pVars, fin>>
      PROVE  StackOK' /\ Busy' /\ InStep'
  <2> DEFINE f == [call |-> call, at |-> "-"]
  <2>1. f \in Frame /\ ~Middle(f)
    BY Frames DEF Middle, Stopping
  <2>2. QED  BY <1>2, <1>7, <2>1 DEF Push
<1>8. CASE OnHalt
  <2>1. CASE Stop("halt")
    BY <1>4, <1>8, <2>1 DEF OnHalt, Stopping
  <2>2. CASE Push("tray", "icon") /\ UNCHANGED p2pVars
    <3> DEFINE f == [call |-> "tray", at |-> "icon"]
    <3>1. f \in Frame /\ ~Middle(f)
      BY Frames DEF Middle, Stopping
    <3>2. QED  BY <1>2, <1>8, <2>2, <3>1 DEF OnHalt, Push
  <2>3. QED  BY <1>8, <2>1, <2>2 DEF OnHalt
<1>9. QED  BY <1>1, <1>3, <1>5, <1>6, <1>7, <1>8 DEF OnRebuild, OnOption

LEMMA DispatchKept ==
    ASSUME IInv, Dispatch
    PROVE  StackOK' /\ Busy' /\ InStep'
<1>1. Handles /\ UNCHANGED worker
  BY DEF Dispatch, HandlesPosted
<1>2. CASE Deleted /\ Fall
  BY <1>2, FallKept
<1>3. CASE FinalizeApp
  BY <1>1, <1>3, HandlesOpen, FinalizeAppKept
<1>4. CASE Ignore /\ UNCHANGED life
  BY <1>1, <1>4, UnmovedKept DEF Ignore, p2pVars, Same
<1>5. CASE (OnStart \/ OnStop \/ OnRebuild \/ OnReindex \/ OnOption \/ OnHalt) /\ UNCHANGED life
  BY <1>1, <1>5, MessageKept
<1>6. QED  BY <1>2, <1>3, <1>4, <1>5 DEF Dispatch

(* The rest of the window thread. *)
LEMMA WindowKept ==
    ASSUME IInv, WindowThread
    PROVE  StackOK' /\ Busy' /\ InStep'
<1>1. CASE P2PCalls
  BY <1>1, P2PCallsKept
<1>2. CASE IconTimeout
  <2>1. PICK at \in {"server", "jobs"} : StopBegins(at) /\ Push("restart", at)
    BY <1>2 DEF IconTimeout
  <2>2. Open /\ "restart" \in Stopping
    BY <1>2, HandlesOpen DEF IconTimeout, HandlesPosted, Stopping
  <2>3. QED  BY <1>2, <2>1, <2>2, StopKept DEF IconTimeout
<1>3. CASE Dispatch
  BY <1>3, DispatchKept
<1>4. CASE UseDeleted
  BY <1>4, FallKept DEF UseDeleted
<1>5. CASE ResumeTimeout
  <2>1. CASE Deleted /\ Fall
    BY <2>1, FallKept
  <2>2. CASE OnStart /\ UNCHANGED <<worker, life>>
    BY <1>5, <2>2, MessageKept DEF ResumeTimeout, HandlesPosted
  <2>3. QED  BY <1>5, <2>1, <2>2 DEF ResumeTimeout
<1>6. CASE DialogTimeout
  BY <1>6, UnmovedKept DEF DialogTimeout, p2pVars, Same
<1>7. CASE TaskCancelled
  <2>1. stack # <<>> /\ ~Middle(Last(stack))
    BY <1>7, TopOf DEF TaskCancelled, IInv, Middle, Stopping
  <2>2. QED  BY <1>7, <2>1, PopKept DEF TaskCancelled, p2pVars, Same
<1>8. CASE Resumed
  <2>1. CASE stopBySuspend /\ Deleted
    BY <1>8, <2>1, FallKept DEF Resumed
  <2>2. CASE ~(stopBySuspend /\ Deleted)
    BY <1>8, <2>2, UnmovedKept DEF Resumed, p2pVars, Same
  <2>3. QED  BY <2>1, <2>2
<1>9. CASE Exit
  BY <1>9, LateKept DEF Exit, p2pVars
<1>10. QED  BY <1>1, <1>2, <1>3, <1>4, <1>5, <1>6, <1>7, <1>8, <1>9 DEF WindowThread

LEMMA UserKept ==
    ASSUME IInv, User
    PROVE  StackOK' /\ Busy' /\ InStep'
<1>1. CASE OpenMenu
  <2>1. PICK at \in {"active", "inactive"} : Push("menu", at)
    BY <1>1 DEF OpenMenu
  <2> DEFINE f == [call |-> "menu", at |-> at]
  <2>2. f \in Frame /\ ~Middle(f)
    BY Frames DEF Middle, Stopping
  <2>3. Open /\ Same
    BY <1>1, HandlesOpen DEF OpenMenu, HandlesPosted, p2pVars, Same
  <2>4. QED  BY <2>1, <2>2, <2>3, PushKept DEF Push
<1>2. CASE CloseMenu \/ ConfirmRebuild \/ CancelRebuild \/ CloseBox
  <2>1. Pop /\ Same /\ Top \in {"menu", "ask", "box"}
    BY <1>2 DEF CloseMenu, ConfirmRebuild, CancelRebuild, CloseBox, p2pVars, Same
  <2>2. stack # <<>> /\ ~Middle(Last(stack))
    BY <2>1, TopOf DEF IInv, Middle, Stopping
  <2>3. QED  BY <2>1, <2>2, PopKept
<1>3. CASE CloseOptions
  <2>1. stack # <<>> /\ ~Middle(Last(stack))
    BY <1>3, TopOf DEF CloseOptions, IInv, Middle, Stopping
  <2>2. CASE Pop /\ UNCHANGED p2pVars
    BY <1>3, <2>1, <2>2, PopKept DEF CloseOptions, p2pVars, Same
  <2>3. ASSUME NEW at \in {"server", "jobs"}, StopBegins(at), Become("restart", at)
        PROVE  StackOK' /\ Busy' /\ InStep'
    <3>1. [call |-> "restart", at |-> at] \in Frame /\ "restart" \in Stopping
      BY Frames DEF Stopping
    <3>2. StackOK' /\ Inner([call |-> "restart", at |-> at])'
      BY <2>1, <2>3, <3>1, Replaced DEF IInv, Become
    <3>3. fin = "off" => Even
      BY <2>1 DEF IInv, InStep, Calm
    <3>4. QED  BY <1>3, <2>3, <3>1, <3>2, <3>3, BeginKept DEF CloseOptions
  <2>4. QED  BY <1>3, <2>2, <2>3 DEF CloseOptions
<1>4. CASE CancelTask
  <2> DEFINE f == [call |-> "cancel", at |-> "-"]
  <2>1. f \in Frame /\ ~Middle(f)
    BY Frames DEF Middle, Stopping
  <2>2. QED  BY <1>4, <2>1, PushKept, HandlesOpen DEF CancelTask, Push, p2pVars, Same
<1>5. CASE WebShutdown
  BY <1>5, UnmovedKept DEF WebShutdown, p2pVars, Same
<1>6. QED  BY <1>1, <1>2, <1>3, <1>4, <1>5 DEF User

LEMMA SystemKept ==
    ASSUME IInv, System
    PROVE  StackOK' /\ Busy' /\ InStep'
<1>1. CASE AskSuspend
  <2>1. UNCHANGED <<worker, fin, life>> /\ Handles
    BY <1>1 DEF AskSuspend
  <2>2. CASE Stop("suspend")
    BY <2>1, <2>2, StopKept, HandlesOpen DEF Stop, Stopping
  <2>3. CASE UNCHANGED <<stack, p2pVars>>
    BY <2>1, <2>3, UnmovedKept DEF p2pVars, Same
  <2>4. QED  BY <1>1, <2>2, <2>3 DEF AskSuspend
<1>2. CASE RefuseSuspend \/ Sleep \/ TenMinutes
  BY <1>2, UnmovedKept DEF RefuseSuspend, Sleep, TenMinutes, p2pVars, Same
<1>3. CASE EndSession
  BY <1>3, FinalizeAppKept, HandlesOpen DEF EndSession
<1>4. QED  BY <1>1, <1>2, <1>3 DEF System

LEMMA ThreadsKept ==
    ASSUME IInv, Workers \/ Rebuilding \/ Reindexing
    PROVE  StackOK' /\ Busy' /\ InStep'
<1>1. CASE CheckQuarterOverflow
  BY <1>1, UnmovedKept DEF CheckQuarterOverflow, p2pVars, Same
<1>2. ASSUME NEW w \in Worker, WorkBegins(w) \/ WorkEnds(w) \/ ShowBaloon(w) \/ BaloonShown(w)
      PROVE  StackOK' /\ Busy' /\ InStep'
  <2>1. UNCHANGED <<stack, p2pVars, fin, life>>
    BY <1>2 DEF WorkBegins, WorkEnds, ShowBaloon, BaloonShown
  <2>2. StackOK' /\ InStep'
    BY <2>1, SameStack DEF IInv, p2pVars, InStep, HalfWay, Even, Told
  <2>3. \A v \in Worker : worker'[v] # "idle" =>
           worker[v] # "idle" \/ IF v \in Parser THEN server = "on" ELSE sched = "on"
    BY <1>2 DEF WorkBegins, WorkEnds, ShowBaloon, BaloonShown, IInv, Rest
  <2>4. Busy'
    BY <2>1, <2>3, ProgramAssumption DEF IInv, p2pVars, Busy, Worker
  <2>5. QED  BY <2>2, <2>4
<1>3. CASE Rebuilding \/ Reindexing
  <2>1. CASE Deleted /\ Fall
    BY <2>1, FallKept
  <2>2. CASE UNCHANGED <<stack, p2pVars, worker, fin, life>>
    BY <2>2, UnmovedKept DEF p2pVars, Same
  <2>3. QED  BY <1>3, <2>1, <2>2 DEF Rebuilding, Reindexing
<1>4. QED  BY <1>1, <1>2, <1>3 DEF Workers

LEMMA EndKept ==
    ASSUME IInv, Finalize
    PROVE  StackOK' /\ Busy' /\ InStep'
<1>1. stack' = stack /\ worker' = worker /\ fin' # "off"
  BY DEF Finalize, FinStopRebuild, FinStopP2P, FinServer, FinJobs, FinDelete, FinEnds
<1>2. StackOK'
  BY <1>1, SameStack DEF IInv
<1>3. Busy'
  BY <1>1 DEF Finalize, FinStopRebuild, FinStopP2P, FinServer, FinJobs, FinDelete, FinEnds,
     ServerStopped, JobsStopped, StopBegins, p2pVars, IInv, Busy
<1>4. QED  BY <1>1, <1>2, <1>3 DEF InStep
-----------------------------------------------------------------------------
(* The types of the rest. *)

LEMMA StopFlags ==
    ASSUME Flags, NEW at \in {"server", "jobs"}, StopBegins(at)
    PROVE  server' \in {"off", "on", "stopping"} /\ sched' \in {"off", "on", "stopping"}
  BY DEF Flags, P2PFlags, StopBegins

LEMMA FallFlags == Flags /\ Fall => Flags'
  BY DEF Flags, P2PFlags, DlgFlags, TaskFlags, PowerFlags, EndFlags, Fall,
     p2pVars, taskVars, dlgVars, powerVars

LEMMA MessageFlags ==
    ASSUME Flags, OnStart \/ OnStop \/ OnRebuild \/ OnReindex \/ OnOption \/ OnHalt, UNCHANGED life
    PROVE  Flags'
<1> USE DEF OnStart, OnStop, Stop, OnRebuild, OnReindex, OnOption, OnHalt, Ignore, OpenDialog
<1>0. P2PFlags /\ DlgFlags /\ TaskFlags /\ PowerFlags /\ EndFlags
  BY DEF Flags
<1>1. P2PFlags'
  BY <1>0, StopFlags DEF P2PFlags, p2pVars
<1>2. DlgFlags'
  BY <1>0 DEF DlgFlags, dlgVars
<1>3. TaskFlags'
  BY <1>0 DEF TaskFlags, taskVars
<1>4. PowerFlags'
  BY <1>0 DEF PowerFlags, powerVars
<1>5. EndFlags'
  BY <1>0 DEF EndFlags
<1>6. QED  BY <1>1, <1>2, <1>3, <1>4, <1>5 DEF Flags

LEMMA FinalizeFlags ==
    ASSUME Flags, FinalizeApp, PowerFlags'
    PROVE  Flags'
<1> USE DEF FinalizeApp, OpenDialog
<1>0. P2PFlags /\ DlgFlags /\ TaskFlags /\ PowerFlags /\ EndFlags
  BY DEF Flags
<1>1. P2PFlags'
  BY <1>0 DEF P2PFlags, p2pVars
<1>2. DlgFlags'
  BY <1>0 DEF DlgFlags, dlgVars
<1>3. TaskFlags'
  BY <1>0 DEF TaskFlags, taskVars
<1>4. PowerFlags'
  BY <1>0 DEF PowerFlags, powerVars
<1>5. EndFlags'
  BY <1>0 DEF EndFlags
<1>6. QED  BY <1>1, <1>2, <1>3, <1>4, <1>5 DEF Flags

LEMMA P2PCallsFlags ==
    ASSUME Flags, P2PCalls
    PROVE  Flags'
<1> USE DEF P2PCalls, StopServer, StopJobs, ChangeTrayIcon, LeaveStopP2P, StartP2P, LeaveStartP2P,
           LeaveTray, ServerStopped, JobsStopped, InCallFrame
<1>0. P2PFlags /\ DlgFlags /\ TaskFlags /\ PowerFlags /\ EndFlags
  BY DEF Flags
<1>1. P2PFlags'
  <2>1. server' \in {"off", "on", "stopping"} /\ sched' \in {"off", "on", "stopping"}
    BY <1>0, StopFlags DEF P2PFlags, p2pVars
  <2>2. active' \in BOOLEAN /\ haltTarget' \in BOOLEAN /\ recent' \in BOOLEAN
    BY <1>0 DEF P2PFlags, p2pVars
  <2>3. crossed' \in BOOLEAN
    BY <1>0 DEF P2PFlags, p2pVars
  <2>4. QED  BY <2>1, <2>2, <2>3 DEF P2PFlags
<1>2. DlgFlags'
  BY <1>0 DEF DlgFlags, dlgVars
<1>3. TaskFlags'
  BY <1>0 DEF TaskFlags, taskVars
<1>4. PowerFlags'
  BY <1>0 DEF PowerFlags, powerVars
<1>5. EndFlags'
  BY <1>0 DEF EndFlags
<1>6. QED  BY <1>1, <1>2, <1>3, <1>4, <1>5 DEF Flags

LEMMA WindowFlags ==
    ASSUME Flags, WindowThread
    PROVE  Flags'
<1>1. CASE P2PCalls
  BY <1>1, P2PCallsFlags
<1>2. CASE Dispatch
  <2>1. CASE Fall
    BY <2>1, FallFlags
  <2>2. CASE FinalizeApp /\ UNCHANGED powerVars
    BY <2>2, FinalizeFlags DEF powerVars, Flags, PowerFlags
  <2>3. CASE Ignore /\ UNCHANGED life
    BY <2>3 DEF Ignore, Flags, P2PFlags, DlgFlags, TaskFlags, PowerFlags, EndFlags,
       p2pVars, dlgVars, taskVars, powerVars
  <2>4. CASE (OnStart \/ OnStop \/ OnRebuild \/ OnReindex \/ OnOption \/ OnHalt) /\ UNCHANGED life
    BY <2>4, MessageFlags
  <2>5. QED  BY <1>2, <2>1, <2>2, <2>3, <2>4 DEF Dispatch
<1>3. CASE UseDeleted
  BY <1>3, FallFlags DEF UseDeleted
<1>4. CASE ResumeTimeout
  BY <1>4, FallFlags, MessageFlags DEF ResumeTimeout
<1>8. CASE IconTimeout
  <2>1. P2PFlags'
    BY <1>8, StopFlags DEF IconTimeout, Flags, P2PFlags
  <2>2. QED
    BY <1>8, <2>1 DEF IconTimeout, Flags, DlgFlags, TaskFlags, PowerFlags, EndFlags, dlgVars, taskVars, powerVars
<1>5. CASE DialogTimeout \/ TaskCancelled \/ Exit
  BY <1>5 DEF DialogTimeout, TaskCancelled, Exit, Flags, P2PFlags, DlgFlags, TaskFlags, PowerFlags, EndFlags,
     p2pVars, dlgVars, taskVars, powerVars
<1>6. CASE Resumed
  <2>1. CASE Fall
    BY <2>1, FallFlags
  <2>2. CASE ~Fall
    BY <1>6, <2>2 DEF Resumed, Flags, P2PFlags, DlgFlags, TaskFlags, PowerFlags, EndFlags,
       p2pVars, dlgVars, taskVars
  <2>3. QED  BY <2>1, <2>2
<1>7. QED  BY <1>1, <1>2, <1>3, <1>4, <1>5, <1>6, <1>8 DEF WindowThread

LEMMA UserFlags ==
    ASSUME Flags, User
    PROVE  Flags'
<1> USE DEF User, OpenMenu, CloseMenu, ConfirmRebuild, CancelRebuild, CloseOptions, CloseBox, CancelTask, WebShutdown,
           OpenDialog
<1>0. P2PFlags /\ DlgFlags /\ TaskFlags /\ PowerFlags /\ EndFlags
  BY DEF Flags
<1>1. P2PFlags'
  BY <1>0, StopFlags DEF P2PFlags, p2pVars
<1>2. DlgFlags'
  BY <1>0 DEF DlgFlags, dlgVars
<1>3. TaskFlags'
  BY <1>0 DEF TaskFlags, taskVars
<1>4. PowerFlags'
  BY <1>0 DEF PowerFlags, powerVars
<1>5. EndFlags'
  BY <1>0 DEF EndFlags
<1>6. QED  BY <1>1, <1>2, <1>3, <1>4, <1>5 DEF Flags

LEMMA SystemFlags ==
    ASSUME Flags, System
    PROVE  Flags'
<1>1. CASE AskSuspend
  <2>1. P2PFlags'
    BY <1>1, StopFlags DEF AskSuspend, Stop, p2pVars, Flags, P2PFlags
  <2>2. QED
    BY <1>1, <2>1 DEF AskSuspend, Flags, DlgFlags, TaskFlags, PowerFlags, EndFlags, dlgVars, taskVars
<1>2. CASE RefuseSuspend \/ Sleep
  BY <1>2 DEF RefuseSuspend, Sleep, Flags, P2PFlags, DlgFlags, TaskFlags, PowerFlags, EndFlags,
     p2pVars, dlgVars, taskVars
<1>4. CASE TenMinutes
  <2>1. P2PFlags'
    BY <1>4 DEF TenMinutes, Flags, P2PFlags
  <2>2. QED
    BY <1>4, <2>1 DEF TenMinutes, Flags, DlgFlags, TaskFlags, PowerFlags, EndFlags, dlgVars, taskVars, powerVars
<1>3. CASE EndSession
  <2>1. PowerFlags'
    BY <1>3 DEF EndSession, Flags, PowerFlags
  <2>2. QED  BY <1>3, <2>1, FinalizeFlags DEF EndSession
<1>5. QED  BY <1>1, <1>2, <1>3, <1>4 DEF System

LEMMA WorkersFlags ==
    ASSUME Flags, Workers
    PROVE  Flags'
<1> USE DEF Workers, CheckQuarterOverflow, WorkBegins, WorkEnds, ShowBaloon, BaloonShown
<1>0. P2PFlags /\ DlgFlags /\ TaskFlags /\ PowerFlags /\ EndFlags
  BY DEF Flags
<1>1. P2PFlags'
  BY <1>0 DEF P2PFlags, p2pVars
<1>2. DlgFlags'
  BY <1>0 DEF DlgFlags, dlgVars
<1>3. TaskFlags'
  BY <1>0 DEF TaskFlags, taskVars
<1>4. PowerFlags'
  BY <1>0 DEF PowerFlags, powerVars
<1>5. EndFlags'
  BY <1>0 DEF EndFlags
<1>6. QED  BY <1>1, <1>2, <1>3, <1>4, <1>5 DEF Flags

LEMMA TaskThreadsFlags ==
    ASSUME Flags, RebuildBegins \/ RebuildScanned \/ RebuildEnds \/ Reindexed \/ ReindexEnds,
           UNCHANGED <<p2pVars, powerVars, fin, life>>
    PROVE  Flags'
<1> USE DEF RebuildBegins, RebuildScanned, RebuildEnds, Reindexed, ReindexEnds
<1>0. P2PFlags /\ DlgFlags /\ TaskFlags /\ PowerFlags /\ EndFlags
  BY DEF Flags
<1>1. P2PFlags'
  BY <1>0 DEF P2PFlags, p2pVars
<1>2. DlgFlags'
  BY <1>0 DEF DlgFlags, dlgVars
<1>3. TaskFlags'
  BY <1>0 DEF TaskFlags, taskVars
<1>4. PowerFlags'
  BY <1>0 DEF PowerFlags, powerVars
<1>5. EndFlags'
  BY <1>0 DEF EndFlags
<1>6. QED  BY <1>1, <1>2, <1>3, <1>4, <1>5 DEF Flags

LEMMA FinalizeThreadFlags ==
    ASSUME Flags, Finalize
    PROVE  Flags'
<1> USE DEF Finalize, FinStopRebuild, FinStopP2P, FinServer, FinJobs, FinDelete, FinEnds,
           ServerStopped, JobsStopped
<1>0. P2PFlags /\ DlgFlags /\ TaskFlags /\ PowerFlags /\ EndFlags
  BY DEF Flags
<1>1. P2PFlags'
  BY <1>0, StopFlags DEF P2PFlags, p2pVars
<1>2. DlgFlags'
  BY <1>0 DEF DlgFlags, dlgVars
<1>3. TaskFlags'
  BY <1>0 DEF TaskFlags, taskVars
<1>4. PowerFlags'
  BY <1>0 DEF PowerFlags, powerVars
<1>5. EndFlags'
  BY <1>0 DEF EndFlags
<1>6. QED  BY <1>1, <1>2, <1>3, <1>4, <1>5 DEF Flags

LEMMA ThreadsFlags ==
    ASSUME Flags, Workers \/ Rebuilding \/ Reindexing
    PROVE  Flags'
  BY WorkersFlags, TaskThreadsFlags, FallFlags DEF Rebuilding, Reindexing

(* The messages that are posted, the workers, and the bound. *)
LEMMA PostRest ==
    ASSUME Rest, NEW m \in Posted, Post(m)
    PROVE  queue' \in Seq(Posted)
  BY DEF Rest, Post

LEMMA EventRest ==
    ASSUME Rest, Event \/ UNCHANGED events
    PROVE  events' \in 0..MaxEvents
  BY ProgramAssumption DEF Rest, Event

LEMMA OfferedPosted == Offered \subseteq Posted
  BY DEF Offered, Posted, Command

LEMMA NextRest ==
    ASSUME IInv, Next
    PROVE  Rest'
<1> USE DEF IInv
<1>1. Rest /\ Rest!1 /\ Rest!2
  BY DEF Rest
<1>2. CASE WindowThread \/ System \/ Finalize
  <2>1. worker' = worker
    BY <1>2 DEF WindowThread, System, Finalize, P2PCalls, StopServer, StopJobs, ChangeTrayIcon, LeaveStopP2P,
       StartP2P, LeaveStartP2P, LeaveTray, InCallFrame, Dispatch, UseDeleted, ResumeTimeout, IconTimeout, TenMinutes,
       DialogTimeout, TaskCancelled, Resumed, Exit, AskSuspend, RefuseSuspend, Sleep, EndSession, FinalizeApp,
       FinStopRebuild, FinStopP2P, FinServer, FinJobs, FinDelete, FinEnds, Fall
  <2>2. Event \/ UNCHANGED events
    BY <1>2 DEF WindowThread, System, Finalize, P2PCalls, StopServer, StopJobs, ChangeTrayIcon, LeaveStopP2P,
       StartP2P, LeaveStartP2P, LeaveTray, InCallFrame, Dispatch, UseDeleted, ResumeTimeout, IconTimeout, TenMinutes,
       DialogTimeout, TaskCancelled, Resumed, Exit, AskSuspend, RefuseSuspend, Sleep, EndSession,
       FinStopRebuild, FinStopP2P, FinServer, FinJobs, FinDelete, FinEnds
  <2>3. CASE Dispatch
    <3>1. queue # <<>> /\ (queue' = Tail(queue) \/ queue' = Append(Tail(queue), "close"))
      BY <2>3 DEF Dispatch
    <3>2. Tail(queue) \in Seq(Posted) /\ "close" \in Posted
      BY <1>1, <3>1 DEF Posted
    <3>3. queue' \in Seq(Posted)
      BY <3>1, <3>2
    <3>4. QED  BY <1>1, <2>1, <2>2, <3>3, EventRest DEF Rest
  <2>4. CASE ~Dispatch
    <3>1. queue' = queue
      BY <1>2, <2>4 DEF WindowThread, System, Finalize, P2PCalls, StopServer, StopJobs, ChangeTrayIcon, LeaveStopP2P,
         StartP2P, LeaveStartP2P, LeaveTray, InCallFrame, UseDeleted, ResumeTimeout, IconTimeout, TenMinutes,
         DialogTimeout, TaskCancelled, Resumed, Exit, AskSuspend, RefuseSuspend, Sleep, EndSession,
         FinStopRebuild, FinStopP2P, FinServer, FinJobs, FinDelete, FinEnds
    <3>2. QED  BY <1>1, <2>1, <2>2, <3>1, EventRest DEF Rest
  <2>5. QED  BY <2>3, <2>4
<1>3. CASE User
  <2>1. worker' = worker /\ (Event \/ UNCHANGED events)
    BY <1>3 DEF User, OpenMenu, CloseMenu, ConfirmRebuild, CancelRebuild, CloseOptions, CloseBox,
       CancelTask, WebShutdown
  <2>2. queue' \in Seq(Posted)
    <3>1. queue' = queue \/ (\E c \in Offered : Post(c)) \/ Post("close")
      BY <1>3 DEF User, OpenMenu, CloseMenu, ConfirmRebuild, CancelRebuild, CloseOptions, CloseBox,
       CancelTask, WebShutdown
    <3>2. "close" \in Posted
      BY DEF Posted
    <3>3. QED  BY <1>1, <3>1, <3>2, PostRest, OfferedPosted
  <2>3. QED  BY <1>1, <2>1, <2>2, EventRest DEF Rest
<1>4. CASE Workers
  <2>1. Event \/ UNCHANGED events
    BY <1>4 DEF Workers, CheckQuarterOverflow, WorkBegins, WorkEnds, ShowBaloon, BaloonShown
  <2>2. "halt" \in Posted
    BY DEF Posted
  <2>3. queue' \in Seq(Posted)
    BY <1>1, <1>4, <2>2, PostRest DEF Workers, CheckQuarterOverflow, WorkBegins, WorkEnds, ShowBaloon, BaloonShown
  <2>4. worker' \in [Worker -> {"idle", "work", "send"}]
    BY <1>1, <1>4 DEF Workers, CheckQuarterOverflow, WorkBegins, WorkEnds, ShowBaloon, BaloonShown
  <2>5. QED  BY <1>1, <2>1, <2>3, <2>4, EventRest DEF Rest
<1>5. CASE Rebuilding \/ Reindexing
  <2>1. UNCHANGED <<queue, worker, events>>
    BY <1>5 DEF Rebuilding, Reindexing, Fall
  <2>2. QED  BY <1>1, <2>1, EventRest DEF Rest
<1>6. QED  BY <1>2, <1>3, <1>4, <1>5 DEF Next

-----------------------------------------------------------------------------

LEMMA InitHolds == Init => IInv
<1> SUFFICES ASSUME Init  PROVE IInv
  OBVIOUS
<1>1. StackOK
  BY DEF Init, StackOK, Covered
<1>2. Flags
  BY DEF Init, Flags, P2PFlags, DlgFlags, TaskFlags, PowerFlags, EndFlags
<1>3. Rest
  BY ProgramAssumption DEF Init, Rest
<1>4. Busy
  BY DEF Init, Busy, Worker
<1>5. Calm
  BY DEF Init, Calm
<1>6. InStep
  BY <1>5 DEF Init, InStep, Even, Told
<1>7. QED  BY <1>1, <1>2, <1>3, <1>4, <1>6 DEF IInv

LEMMA NextHolds == IInv /\ [Next]_vars => IInv'
<1> SUFFICES ASSUME IInv, [Next]_vars  PROVE IInv'
  OBVIOUS
<1>1. CASE Next
  <2>1. StackOK' /\ Busy' /\ InStep'
    BY <1>1, WindowKept, UserKept, SystemKept, ThreadsKept, EndKept DEF Next
  <2>2. Flags'
    BY <1>1, WindowFlags, UserFlags, SystemFlags, ThreadsFlags, FinalizeThreadFlags
    DEF Next, IInv
  <2>3. Rest'
    BY <1>1, NextRest
  <2>4. QED  BY <2>1, <2>2, <2>3 DEF IInv
<1>2. CASE UNCHANGED vars
  <2>1. StackOK' /\ Busy' /\ InStep'
    BY <1>2, UnmovedKept DEF vars, p2pVars, Same
  <2>2. Flags' /\ Rest'
    BY <1>2 DEF IInv, Flags, P2PFlags, DlgFlags, TaskFlags, PowerFlags, EndFlags, Rest, vars, p2pVars, dlgVars, taskVars, powerVars
  <2>3. QED  BY <2>1, <2>2 DEF IInv
<1>3. QED  BY <1>1, <1>2

(* What is inductive holds always. *)
THEOREM Invariance == Spec => []IInv
  BY InitHolds, NextHolds, PTL DEF Spec

(* Every variable keeps its type, for any threads and events; what takes   *)
(* no messages, a StartP2P, a StopP2P or a StopRebuildDB, is always the    *)
(* innermost call of the window thread, but for the restart its            *)
(* ChangeTrayIcon has asked for.                                           *)
THEOREM TypeCorrect == Spec => []TypeOK
<1>1. IInv => TypeOK
  BY TypeParts DEF IInv
<1>2. QED  BY <1>1, Invariance, PTL

(* Until the program ends, and outside of StartP2P and StopP2P, the server *)
(* and the scheduler run both or neither, and Active says which, and nobody*)
(* works when they do not: after a start that failed, a stop from a menu   *)
(* that was out of date, a restart by the options or by the icon, a suspend*)
(* and an emergency halt, in any order; unless the icon has restarted P2P  *)
(* within the last StartP2P or StopP2P.                                    *)
THEOREM ActiveKnows == Spec => []ActiveTells
<1>1. IInv => ActiveTells
  <2> SUFFICES ASSUME IInv, fin = "off", Top \notin P2PCall
               PROVE  /\ sched \in {"on", "off"} /\ server = sched
                      /\ crossed \/ active = (sched = "on")
                      /\ sched = "off" => \A w \in Worker : worker[w] = "idle"
    BY DEF ActiveTells
  <2>1. Calm
    BY DEF Calm, Middle, Top, P2PCall
  <2>2. Even /\ Told
    BY <2>1 DEF IInv, InStep
  <2>3. sched = "off" => \A w \in Worker : worker[w] = "idle"
    BY <2>2 DEF Even, IInv, Busy, Worker
  <2>4. QED  BY <2>2, <2>3 DEF Even, Told
<1>2. QED  BY <1>1, Invariance, PTL
-----------------------------------------------------------------------------
(* What stands still: the safety part of Resumes, MenuReturns and ExitEnds.*)

(* A step that leaves the stack and fin alone keeps the program stuck if   *)
(* whoever shows a balloon does so still.                                  *)
LEMMA StuckFrame ==
    ASSUME Stuck, fin = "off", fin' = fin, Top' \in Stopping, Last(stack)'.at \in {"server", "jobs"},
           \A w \in Worker : worker[w] = "send" => worker'[w] = "send"
    PROVE  Stuck' /\ fin' = "off"
  BY DEF Stuck

(* A StopP2P on the window thread that waits for a balloon waits for good: *)
(* no message, timer or thread gets it on, and the program is not ended by *)
(* anything, for FinalizeApp needs the window thread as well.              *)
THEOREM StuckForGood ==
    Spec => [][Stuck /\ fin = "off" => Stuck' /\ fin' = "off" /\ life' = "run"]_vars
<1>1. ASSUME IInv, [Next]_vars, Stuck, fin = "off" PROVE Stuck' /\ fin' = "off"
  <2>1. /\ Top \in Stopping /\ StackOK /\ ~Handles /\ ~HandlesPosted /\ ~Deleted
        /\ stack # <<>> /\ Last(stack).call = Top /\ Last(stack).at \in {"server", "jobs"}
    BY <1>1, TopOf DEF Stuck, IInv, Handles, HandlesPosted, Deleted, Stopping
  <2>2. /\ Last(stack).at = "jobs" => server = "off"
        /\ \E w \in Worker : worker[w] = "send"
    BY <1>1, <2>1 DEF IInv, InStep, Calm, Middle, HalfWay, Stuck
  <2>3. worker \in [Worker -> {"idle", "work", "send"}]
    BY <1>1 DEF IInv, Rest
  <2>4. CASE stack' = stack /\ fin' = fin /\ worker' = worker
    <3>1. Top' = Top /\ Last(stack)' = Last(stack)
      BY <2>1, <2>4, SameStack
    <3>2. Top' \in Stopping /\ Last(stack)'.at \in {"server", "jobs"}
      BY <2>1, <3>1
    <3> QED BY <1>1, <2>4, <3>2, StuckFrame
  <2>5. CASE WindowThread
    <3>1. CASE StopServer
      <4>1. PICK f \in Frame : f.call = Top /\ f.at = "jobs" /\ stack' = Append(Front(stack), f)
        BY <2>1, <3>1, Frames DEF StopServer, Become
      <4>2. Inner(f)'
        BY <2>1, <4>1, Replaced
      <4>3. Top' = f.call /\ Last(stack)' = f
        BY <4>2 DEF Inner, Top
      <4>4. Top' \in Stopping /\ Last(stack)'.at \in {"server", "jobs"}
        BY <2>1, <4>1, <4>3
      <4>5. UNCHANGED <<fin, worker>>
        BY <3>1 DEF StopServer, InCallFrame
      <4> QED BY <1>1, <4>4, <4>5, StuckFrame
    <3>2. ~StopJobs
      <4>1. SUFFICES ASSUME StopJobs PROVE FALSE
        OBVIOUS
      <4>2. Last(stack).at = "jobs" /\ \A w \in JobThread : worker[w] = "idle"
        BY <4>1 DEF StopJobs, InCall, JobsStopped
      <4>3. \A w \in Parser : worker[w] = "idle"
        BY <1>1, <2>2, <4>2 DEF IInv, Busy
      <4> QED BY <2>2, <4>2, <4>3 DEF Worker
    <3>3. ~Dispatch /\ ~UseDeleted /\ ~ResumeTimeout /\ ~DialogTimeout /\ ~Resumed /\ ~IconTimeout
      BY <2>1 DEF Dispatch, UseDeleted, ResumeTimeout, DialogTimeout, Resumed, IconTimeout
    <3>4. ~TaskCancelled /\ ~Exit
      BY <2>1 DEF TaskCancelled, Exit, Stopping
    <3>5. ~ChangeTrayIcon /\ ~LeaveStopP2P /\ ~StartP2P /\ ~LeaveStartP2P /\ ~LeaveTray
      BY <2>1 DEF ChangeTrayIcon, LeaveStopP2P, StartP2P, LeaveStartP2P, LeaveTray, InCall
    <3> QED BY <2>5, <3>1, <3>2, <3>3, <3>4, <3>5 DEF WindowThread, P2PCalls
  <2>6. CASE User
    <3>1. WebShutdown
      BY <2>1, <2>6 DEF User, OpenMenu, CloseMenu, ConfirmRebuild, CancelRebuild,
         CloseOptions, CloseBox, CancelTask, Stopping
    <3> QED BY <2>4, <3>1 DEF WebShutdown
  <2>7. CASE System
    <3>1. RefuseSuspend \/ Sleep \/ TenMinutes
      BY <2>1, <2>7 DEF System, AskSuspend, EndSession
    <3> QED BY <2>4, <3>1 DEF RefuseSuspend, Sleep, TenMinutes
  <2>8. CASE Workers
    <3>1. stack' = stack /\ fin' = fin
      BY <2>8 DEF Workers, CheckQuarterOverflow, WorkBegins, WorkEnds, ShowBaloon, BaloonShown
    <3>2. ASSUME NEW w \in Worker, worker[w] = "send" PROVE worker'[w] = "send"
      <4>1. CASE UNCHANGED worker
        BY <3>2, <4>1
      <4>2. ASSUME NEW v \in Worker, WorkBegins(v) \/ WorkEnds(v) \/ ShowBaloon(v)
            PROVE  worker'[w] = "send"
        <5>1. v # w
          BY <3>2, <4>2 DEF WorkBegins, WorkEnds, ShowBaloon
        <5> QED BY <2>3, <3>2, <4>2, <5>1 DEF WorkBegins, WorkEnds, ShowBaloon
      <4> QED BY <2>1, <2>8, <4>1, <4>2 DEF Workers, CheckQuarterOverflow, BaloonShown
    <3>3. Top' = Top /\ Last(stack)' = Last(stack)
      BY <2>1, <3>1, SameStack
    <3>4. Top' \in Stopping /\ Last(stack)'.at \in {"server", "jobs"}
      BY <2>1, <3>3
    <3> QED BY <1>1, <3>1, <3>2, <3>4, StuckFrame
  <2>9. CASE Rebuilding \/ Reindexing
    BY <2>1, <2>4, <2>9 DEF Rebuilding, Reindexing
  <2>10. ~Finalize
    BY <1>1 DEF Finalize, FinStopRebuild, FinStopP2P, FinServer, FinJobs, FinDelete, FinEnds
  <2>11. CASE UNCHANGED vars
    BY <2>4, <2>11 DEF vars
  <2> QED BY <1>1, <2>5, <2>6, <2>7, <2>8, <2>9, <2>10, <2>11 DEF Next
<1>2. ASSUME IInv, IInv', [Next]_vars, Stuck, fin = "off"
      PROVE  Stuck' /\ fin' = "off" /\ life' = "run"
  <2>1. fin' = "off" => life' = "run"
    BY <1>2 DEF IInv, InStep
  <2> QED BY <1>1, <1>2, <2>1
<1> QED BY <1>2, Invariance, PTL DEF Spec

(* What FinalizeAppThread, a worker and the window thread can do to go on. *)
FinReady ==
    \/ fin = "rebuild" /\ (rebuild = "off" \/ loop)
    \/ fin = "server" /\ \A w \in Parser : worker[w] = "idle"
    \/ fin = "jobs" /\ \A w \in JobThread : worker[w] = "idle"
    \/ fin \in {"close", "last"}
WorkerReady(w) == worker[w] = "work" \/ (worker[w] = "send" /\ Handles)
WindowReady ==
    \/ Top = "cancel" /\ rebuild = "off"
    \/ Top = "exit" /\ fin = "ended"

(* Somebody can go on until the program is over: the thread of a rebuild   *)
(* is in need of nothing.                                                  *)
ExitGoesOn ==
    life = "run" /\ fin # "off" =>
        \/ FinReady \/ rebuild # "off" \/ \E w \in Worker : WorkerReady(w)
        \/ WindowReady \/ LetOut

(* FinalizeApp is on the stack as long as its thread is there. *)
InExit == life = "run" /\ fin # "off" => Within("exit")

(* A call that is not the innermost is still there when that returns, gets *)
(* further or becomes another one.                                         *)
LEMMA WithinKept ==
    ASSUME StackOK, Within("exit"),
           \/ stack' = stack
           \/ \E f \in Frame : stack' = Append(stack, f)
           \/ Top # "exit" /\ stack' = Front(stack)
           \/ Top # "exit" /\ \E f \in Frame : stack' = Append(Front(stack), f)
           \/ Top # "exit" /\ \E f, g \in Frame : stack' = Append(Append(Front(stack), f), g)
    PROVE  Within("exit")'
<1>1. stack \in Seq(Frame) /\ Len(stack) \in Nat
  BY DEF StackOK
<1>2. PICK k \in 1..Len(stack) : stack[k].call = "exit"
  BY <1>1 DEF Within
<1>3. CASE stack' = stack
  BY <1>3 DEF Within
<1>4. ASSUME NEW f \in Frame, stack' = Append(stack, f) PROVE Within("exit")'
  <2>1. Len(stack') = Len(stack) + 1 /\ stack' \in Seq(Frame) /\ stack'[k] = stack[k]
    BY <1>1, <1>2, <1>4, AppendProperties
  <2>2. k \in DOMAIN stack'
    BY <1>1, <1>2, <2>1
  <2> QED BY <1>2, <2>1, <2>2 DEF Within
<1>5. ASSUME Top # "exit"
      PROVE  LET s == Front(stack)
             IN  s \in Seq(Frame) /\ k \in 1..Len(s) /\ s[k] = stack[k]
  <2>1. stack # <<>> /\ Last(stack) = stack[Len(stack)]
    BY <1>1, <1>2 DEF Last
  <2>2. k # Len(stack)
    BY <1>2, <1>5, <2>1 DEF Top
  <2>3. k \in Int /\ 1 <= k /\ k <= Len(stack) - 1 /\ Len(stack) - 1 \in Nat
    BY <1>1, <1>2, <2>2
  <2> DEFINE n == Len(stack) - 1
  <2>4. n \in Nat /\ n \in Int /\ 1 <= n /\ k \in 1..n /\ \A i \in 1..n : stack[i] \in Frame
    BY <1>1, <2>3
  <2>5. Front(stack) = SubSeq(stack, 1, n)
    BY DEF Front
  <2> HIDE DEF n
  <2>6. /\ SubSeq(stack, 1, n) \in Seq(Frame)
        /\ Len(SubSeq(stack, 1, n)) = IF 1 <= n THEN n - 1 + 1 ELSE 0
        /\ \A i \in 1..n - 1 + 1 : SubSeq(stack, 1, n)[i] = stack[1 + i - 1]
    BY <2>4, SubSeqProperties
  <2>7. n - 1 + 1 = n /\ 1 + k - 1 = k
    BY <2>4
  <2> QED BY <2>4, <2>5, <2>6, <2>7
<1>6. CASE Top # "exit" /\ stack' = Front(stack)
  <2>1. k \in DOMAIN stack' /\ stack'[k] = stack[k]
    BY <1>5, <1>6
  <2> QED BY <1>2, <2>1 DEF Within
<1>7. ASSUME Top # "exit", NEW f \in Frame, stack' = Append(Front(stack), f)
      PROVE  Within("exit")'
  <2> DEFINE s == Front(stack)
  <2>1. s \in Seq(Frame) /\ k \in 1..Len(s) /\ s[k] = stack[k]
    BY <1>5, <1>7
  <2> HIDE DEF s
  <2>2. stack' = Append(s, f)
    BY <1>7 DEF s
  <2>3. k \in DOMAIN stack' /\ stack'[k] = stack[k]
    BY <2>1, <2>2
  <2> QED BY <1>2, <2>3 DEF Within
<1>8. ASSUME Top # "exit", NEW f \in Frame, NEW g \in Frame, stack' = Append(Append(Front(stack), f), g)
      PROVE  Within("exit")'
  <2> DEFINE s == Front(stack)
             t == Append(s, f)
  <2>1. s \in Seq(Frame) /\ k \in 1..Len(s) /\ s[k] = stack[k]
    BY <1>5, <1>8
  <2>2. stack' = Append(t, g)
    BY <1>8
  <2> HIDE DEF s
  <2>3. t \in Seq(Frame) /\ k \in 1..Len(t) /\ t[k] = stack[k]
    BY <2>1
  <2> HIDE DEF t
  <2>4. k \in DOMAIN stack' /\ stack'[k] = stack[k]
    BY <2>2, <2>3
  <2> QED BY <1>2, <2>4 DEF Within
<1> QED BY <1>3, <1>4, <1>6, <1>7, <1>8

LEMMA InExitStep ==
    ASSUME IInv, InExit, [Next]_vars
    PROVE  InExit'
<1> SUFFICES ASSUME life' = "run", fin' # "off" PROVE Within("exit")'
  BY DEF InExit
<1> USE DEF IInv
(* FinalizeApp is called, or was before. *)
<1>1. CASE FinalizeApp
  <2>1. Push("exit", "-")
    BY <1>1 DEF FinalizeApp
  <2>2. stack \in Seq(Frame) /\ Len(stack) \in Nat /\ [call |-> "exit", at |-> "-"] \in Frame
    BY Frames DEF StackOK
  <2> DEFINE f == [call |-> "exit", at |-> "-"]
  <2>3. f.call = "exit" /\ f \in Frame
    BY <2>2
  <2> HIDE DEF f
  <2>4. stack' = Append(stack, f)
    BY <2>1 DEF Push, f
  <2>5. Len(stack) + 1 \in DOMAIN stack' /\ stack'[Len(stack) + 1] = f
    BY <2>2, <2>3, <2>4
  <2> QED BY <2>3, <2>5 DEF Within
<1> DEFINE Moved == \/ stack' = stack
                    \/ \E f \in Frame : stack' = Append(stack, f)
                    \/ Top # "exit" /\ stack' = Front(stack)
                    \/ Top # "exit" /\ \E f \in Frame : stack' = Append(Front(stack), f)
                    \/ Top # "exit" /\ \E f, g \in Frame : stack' = Append(Append(Front(stack), f), g)
<1>2. ASSUME life = "run", fin # "off", Moved PROVE Within("exit")'
  BY <1>2, WithinKept DEF InExit
<1> HIDE DEF Moved
<1>3. ASSUME NEW f \in Frame, stack' = Append(stack, f) PROVE Moved
  BY <1>3 DEF Moved
<1>4. ASSUME NEW c, NEW at, [call |-> c, at |-> at] \in Frame, Push(c, at)
      PROVE  Moved
  BY <1>3, <1>4 DEF Push
<1>5. ASSUME NEW c \in Stopping, NEW at \in {"server", "jobs"}, Push(c, at) PROVE Moved
  BY <1>4, <1>5, Frames
<1>b. ASSUME NEW c, NEW at, [call |-> c, at |-> at] \in Frame, Top # "exit", Become(c, at)
      PROVE  Moved
  BY <1>b DEF Become, Moved
<1>6. CASE WindowThread
  <2>1. CASE Dispatch
    <3>1. life = "run"
      BY <2>1 DEF Dispatch, HandlesPosted, Handles
    <3>2. CASE FinalizeApp
      BY <1>1, <3>2
    <3>3. CASE Fall \/ Ignore
      BY <1>2, <3>1, <3>3 DEF Fall, Ignore, Moved
    <3>4. CASE OnStart \/ OnStop \/ OnRebuild \/ OnReindex \/ OnOption \/ OnHalt
      <4>1. Moved /\ fin' = fin
        <5>1. CASE stack' = stack /\ fin' = fin
          BY <5>1 DEF Moved
        <5>2. CASE (OnStop \/ (OnHalt /\ Stop("halt"))) /\ fin' = fin
          BY <1>5, <5>2 DEF OnStop, OnHalt, Stop, Stopping
        <5>3. ASSUME NEW c \in {"ask", "option"}, Push(c, "-"), fin' = fin PROVE Moved /\ fin' = fin
          BY <1>4, <5>3, Frames
        <5>4. CASE Push("start", "begin") /\ fin' = fin
          BY <1>4, <5>4, Frames
        <5>5. CASE Push("tray", "icon") /\ fin' = fin
          BY <1>4, <5>5, Frames
        <5>6. fin' = fin
          BY <3>4 DEF OnStart, OnStop, OnRebuild, OnReindex, OnOption, OnHalt, Ignore
        <5>7. \/ OnStop \/ (OnHalt /\ Stop("halt"))
              \/ Push("tray", "icon") \/ Push("start", "begin")
              \/ stack' = stack \/ Push("ask", "-") \/ Push("option", "-")
          <6>1. OnHalt => Stop("halt") \/ Push("tray", "icon")
            BY DEF OnHalt
          <6>2. OnRebuild => Push("ask", "-") \/ stack' = stack
            BY DEF OnRebuild, Ignore
          <6>3. OnReindex => stack' = stack
            BY DEF OnReindex, Ignore
          <6>4. OnOption => Push("option", "-") \/ stack' = stack
            BY DEF OnOption, Ignore
          <6>5. OnStart => Push("start", "begin")
            BY DEF OnStart
          <6> QED BY <3>4, <6>1, <6>2, <6>3, <6>4, <6>5
        <5> QED BY <5>1, <5>2, <5>3, <5>4, <5>5, <5>6, <5>7
      <4> QED BY <1>2, <3>1, <4>1
    <3> QED BY <2>1, <3>2, <3>3, <3>4 DEF Dispatch
  <2>2. CASE P2PCalls
    <3>1. /\ Top \in P2PCall /\ Top # "exit" /\ life = "run" /\ fin' = fin
          /\ stack # <<>> /\ Last(stack) = [call |-> Top, at |-> Last(stack).at]
      <4>1. Top \in P2PCall /\ life = "run" /\ fin' = fin
        BY <2>2 DEF P2PCalls, StopServer, StopJobs, ChangeTrayIcon, LeaveStopP2P, StartP2P, LeaveStartP2P,
           LeaveTray, InCall, InCallFrame, P2PCall
      <4> QED BY <4>1, TopOf DEF P2PCall, Stopping
    <3>2. CASE StopServer \/ StopJobs
      <4>1. PICK at \in {"jobs", "icon"} : Top \in Stopping /\ Become(Top, at)
        BY <3>2 DEF StopServer, StopJobs, InCall
      <4>2. PICK f \in Frame : stack' = Append(Front(stack), f)
        BY <4>1, Frames DEF Become
      <4> QED BY <1>2, <3>1, <4>2 DEF Moved
    <3>3. CASE ChangeTrayIcon
      <4>1. PICK at \in {"server", "jobs"} :
               stack' = Append(Append(Front(stack), [Last(stack) EXCEPT !.at = "restarted"]),
                               [call |-> "restart", at |-> at])
        BY <3>3 DEF ChangeTrayIcon
      <4>2. [Last(stack) EXCEPT !.at = "restarted"] = [call |-> Top, at |-> "restarted"]
        BY <3>1
      <4>3. [call |-> Top, at |-> "restarted"] \in Frame /\ [call |-> "restart", at |-> at] \in Frame
        BY <3>1, Frames DEF P2PCall, Stopping
      <4>4. PICK f \in Frame, g \in Frame : stack' = Append(Append(Front(stack), f), g)
        BY <4>1, <4>2, <4>3
      <4> QED BY <1>2, <3>1, <4>4 DEF Moved
    <3>4. CASE Pop
      BY <1>2, <3>1, <3>4 DEF Pop, Moved
    <3>5. CASE Become("tray", "icon") \/ Become("start", "begin") \/ Become("box", "-") \/ Become("start", "icon")
      <4>1. Moved
        BY <1>b, <3>1, <3>5, Frames
      <4> QED BY <1>2, <3>1, <4>1
    <3> QED BY <2>2, <3>2, <3>3, <3>4, <3>5
            DEF P2PCalls, LeaveStopP2P, StartP2P, LeaveStartP2P, LeaveTray
  <2>3. CASE TaskCancelled
    <3>1. Top # "exit" /\ life = "run" /\ fin' = fin /\ stack' = Front(stack)
      BY <2>3 DEF TaskCancelled, Pop
    <3> QED BY <1>2, <3>1 DEF Moved
  <2>4. CASE UseDeleted \/ DialogTimeout \/ Resumed \/ Exit \/ (ResumeTimeout /\ Fall)
    <3>1. stack' = stack /\ fin' = fin /\ life = "run"
      BY <2>4 DEF UseDeleted, ResumeTimeout, DialogTimeout, Resumed, Exit, Fall, HandlesPosted, Handles
    <3> QED BY <1>2, <3>1 DEF Moved
  <2>5. CASE ResumeTimeout /\ OnStart
    <3>1. Push("start", "begin") /\ fin' = fin /\ life = "run"
      BY <2>5 DEF ResumeTimeout, OnStart, HandlesPosted, Handles
    <3>2. Moved
      BY <1>4, <3>1, Frames
    <3> QED BY <1>2, <3>1, <3>2
  <2>6. CASE IconTimeout
    <3>1. PICK at \in {"server", "jobs"} : Push("restart", at)
      BY <2>6 DEF IconTimeout
    <3>2. Moved
      BY <1>5, <3>1 DEF Stopping
    <3> QED BY <1>2, <2>6, <3>2 DEF IconTimeout, HandlesPosted, Handles
  <2>7. ResumeTimeout => ResumeTimeout /\ (Fall \/ OnStart)
    BY DEF ResumeTimeout
  <2>8. \/ P2PCalls \/ Dispatch \/ UseDeleted \/ ResumeTimeout \/ IconTimeout
        \/ DialogTimeout \/ TaskCancelled \/ Resumed \/ Exit
    BY <1>6 DEF WindowThread
  <2> QED BY <2>1, <2>2, <2>3, <2>4, <2>5, <2>6, <2>7, <2>8
<1>7. CASE User
  <2>1. fin' = fin /\ life = "run"
    BY <1>7 DEF User, OpenMenu, CloseMenu, ConfirmRebuild, CancelRebuild, CloseOptions,
       CloseBox, CancelTask, WebShutdown, HandlesPosted, Handles
  <2>2. CASE OpenMenu
    <3>1. PICK at \in {"active", "inactive"} : Push("menu", at)
      BY <2>2 DEF OpenMenu
    <3> QED BY <1>2, <1>4, <2>1, <3>1, Frames
  <2>3. CASE CancelTask
    <3>1. Push("cancel", "-")
      BY <2>3 DEF CancelTask
    <3> QED BY <1>2, <1>4, <2>1, <3>1, Frames
  <2>4. CASE CloseMenu \/ ConfirmRebuild \/ CancelRebuild \/ CloseBox \/ (CloseOptions /\ Pop)
    <3>1. Top # "exit" /\ stack' = Front(stack)
      BY <2>4 DEF CloseMenu, ConfirmRebuild, CancelRebuild, CloseBox, CloseOptions, Pop
    <3> QED BY <1>2, <2>1, <3>1 DEF Moved
  <2>5. CASE CloseOptions /\ ~Pop
    <3>1. PICK at \in {"server", "jobs"} : Become("restart", at)
      BY <2>5 DEF CloseOptions
    <3>2. Moved
      BY <1>b, <2>5, <3>1, Frames DEF CloseOptions, Stopping
    <3> QED BY <1>2, <2>1, <3>2
  <2>6. CASE WebShutdown
    BY <1>2, <2>1, <2>6 DEF WebShutdown, Moved
  <2> QED BY <1>7, <2>2, <2>3, <2>4, <2>5, <2>6 DEF User
<1>8. CASE System
  <2>1. CASE EndSession
    BY <1>1, <2>1 DEF EndSession
  <2>2. CASE AskSuspend
    <3>1. fin' = fin /\ life = "run" /\ (Stop("suspend") \/ stack' = stack)
      BY <2>2 DEF AskSuspend, Handles
    <3>2. Moved
      BY <1>5, <3>1 DEF Stop, Moved, Stopping
    <3> QED BY <1>2, <3>1, <3>2
  <2>3. CASE RefuseSuspend \/ Sleep \/ TenMinutes
    BY <1>2, <2>3 DEF RefuseSuspend, Sleep, TenMinutes, Moved
  <2> QED BY <1>8, <2>1, <2>2, <2>3 DEF System
<1>9. CASE Workers \/ Rebuilding \/ Reindexing
  <2>1. stack' = stack /\ fin' = fin
    BY <1>9 DEF Workers, CheckQuarterOverflow, WorkBegins, WorkEnds, ShowBaloon,
       BaloonShown, Rebuilding, Reindexing, Fall
  <2>2. life = "run"
    BY <1>9 DEF Workers, CheckQuarterOverflow, WorkBegins, WorkEnds, ShowBaloon,
       BaloonShown, Rebuilding, Reindexing, Handles
  <2> QED BY <1>2, <2>1, <2>2 DEF Moved
<1>10. CASE Finalize
  <2>1. stack' = stack /\ fin # "off" /\ life = "run"
    BY <1>10 DEF Finalize, FinStopRebuild, FinStopP2P, FinServer, FinJobs, FinDelete, FinEnds
  <2> QED BY <1>2, <2>1 DEF Moved
<1>11. CASE UNCHANGED vars
  BY <1>2, <1>11 DEF vars, Moved
<1> QED BY <1>6, <1>7, <1>8, <1>9, <1>10, <1>11 DEF Next

(* Once FinalizeAppThread is at work, what it waits for -- a rebuild, the  *)
(* requests, the jobs, their balloons, which FinalizeApp lets through, and *)
(* the dialog of another task above it -- can always go on, unless         *)
(* FinalizeApp no longer keeps the window thread from its menus.           *)
THEOREM ExitNeverStuck == Spec => []ExitGoesOn
<1>1. ASSUME IInv, InExit PROVE ExitGoesOn
  <2> SUFFICES ASSUME life = "run", fin # "off", ~FinReady, rebuild = "off",
                      \A w \in Worker : ~WorkerReady(w), ~WindowReady
               PROVE  LetOut
    BY DEF ExitGoesOn
  <2>1. Within("exit")
    BY <1>1 DEF InExit
  <2>2. fin \in {"server", "jobs", "ended"}
    BY <1>1 DEF FinReady, IInv, Flags, EndFlags
  <2>3. CASE fin = "ended"
    BY <2>1, <2>3 DEF WindowReady, LetOut
  <2>4. CASE fin \in {"server", "jobs"}
    <3>1. PICK w \in Worker : worker[w] # "idle"
      BY <2>4 DEF FinReady, Worker
    <3>2. worker[w] = "send" /\ ~Handles
      BY <1>1, <3>1 DEF WorkerReady, IInv, Rest
    <3>3. Top # "exit"
      BY <3>2 DEF Handles
    <3> QED BY <2>1, <3>3 DEF LetOut
  <2> QED BY <2>2, <2>3, <2>4
<1>2. Init => InExit
  BY DEF Init, InExit
<1>3. IInv /\ InExit /\ [Next]_vars => InExit'
  BY InExitStep
<1> QED BY <1>1, <1>2, <1>3, Invariance, PTL DEF Spec

-----------------------------------------------------------------------------
(* Scheduler.                                                              *)
(*                                                                         *)
(* Two facts carry both properties.  The job that the scheduler thread has *)
(* found not working stays not working until it is launched, because only  *)
(* this thread sets Working.  And there is a scheduler thread only from    *)
(* Start to the join in Stop, so that the wait for the jobs that follows   *)
(* the join waits for all there will be.                                   *)

NotWorking == thread = "due" => ~working[job]

ThreadAlive ==
    /\ thread = "none" <=> stop \in {"deactivate", "wait", "stopped"}
    /\ stop = "stopped" => \A j \in Job : ~working[j]

SchedulerInv == SchedulerTypeOK /\ OneThreadPerJob /\ NotWorking /\ ThreadAlive

-----------------------------------------------------------------------------
LEMMA SchedulerInitInv == SchedulerInit => SchedulerInv
  <1>1. ASSUME SchedulerInit PROVE SchedulerTypeOK
    <2>1. SchedulerTypeOK!1 /\ SchedulerTypeOK!2 /\ SchedulerTypeOK!3 /\ SchedulerTypeOK!4 /\ SchedulerTypeOK!5
      BY <1>1 DEF SchedulerInit
    <2>2. SchedulerTypeOK!6 /\ SchedulerTypeOK!7 /\ SchedulerTypeOK!8 /\ SchedulerTypeOK!9
      BY <1>1 DEF SchedulerInit
    <2>3. SchedulerTypeOK!10 /\ SchedulerTypeOK!11 /\ SchedulerTypeOK!12
      BY <1>1, SchedulerAssumption DEF SchedulerInit
    <2> QED
      BY <2>1, <2>2, <2>3 DEF SchedulerTypeOK
  <1>2. SchedulerInit => OneThreadPerJob
    BY DEF SchedulerInit, OneThreadPerJob
  <1>3. SchedulerInit => NotWorking /\ ThreadAlive
    BY DEF SchedulerInit, NotWorking, ThreadAlive
  <1> QED
    BY <1>1, <1>2, <1>3 DEF SchedulerInv

(* A step keeps the types. *)
LEMMA SchedulerNextType == ASSUME SchedulerTypeOK, [SchedulerNext]_schedulerVars PROVE SchedulerTypeOK'
  <1> USE SchedulerAssumption DEF threadVars, jobVars
  <1>1. CASE Start
    BY <1>1 DEF SchedulerTypeOK, Start
  <1>2. CASE StopBegin
    BY <1>2 DEF SchedulerTypeOK, StopBegin
  <1>3. CASE StopSteps
    BY <1>3 DEF SchedulerTypeOK, StopSteps, StopJoin, StopDeactivate, StopWait
  <1>4. CASE Check \/ PassEnd
    BY <1>4 DEF SchedulerTypeOK, Check, PassEnd
  <1>5. ASSUME NEW j \in Job, Visit(j) PROVE SchedulerTypeOK'
    BY <1>5 DEF SchedulerTypeOK, Visit
  <1>6. CASE TestWorking \/ TestDue
    BY <1>6 DEF SchedulerTypeOK, TestWorking, TestDue
  <1>7. CASE Launch
    BY <1>7 DEF SchedulerTypeOK, Launch
  <1>8. ASSUME NEW j \in Job, Reactivate(j) \/ SelfStop(j) PROVE SchedulerTypeOK'
    BY <1>8 DEF SchedulerTypeOK, Reactivate, SelfStop
  <1>9. ASSUME NEW j \in Job, JobDone(j) PROVE SchedulerTypeOK'
    BY <1>9 DEF SchedulerTypeOK, JobDone
  <1>10. ASSUME NEW j \in Job, JobLast(j) \/ Tick(j) PROVE SchedulerTypeOK'
    <2>1. late' \in [Job -> 0..MaxLate]
      <3>1. late[j] \in 0..MaxLate /\ (late[j] > 0 => late[j] - 1 \in 0..MaxLate)
        BY DEF SchedulerTypeOK
      <3> QED
        BY <1>10, <3>1 DEF SchedulerTypeOK, JobLast, Tick
    <2> QED
      BY <1>10, <2>1 DEF SchedulerTypeOK, JobLast, Tick
  <1>11. CASE UNCHANGED schedulerVars
    BY <1>11 DEF SchedulerTypeOK, schedulerVars
  <1> QED
    BY <1>1, <1>2, <1>3, <1>4, <1>5, <1>6, <1>7, <1>8, <1>9, <1>10, <1>11
    DEF SchedulerNext, Scheduler

(* Working and running change together, and only the scheduler thread sets *)
(* Working, of the job it has found not working.                           *)
LEMMA NextOne ==
  ASSUME SchedulerInv, [SchedulerNext]_schedulerVars PROVE OneThreadPerJob' /\ NotWorking'
  <1> USE DEF SchedulerInv, SchedulerTypeOK, OneThreadPerJob, NotWorking, threadVars, jobVars
  <1>1. CASE Start
    BY <1>1 DEF Start
  <1>2. CASE StopBegin
    BY <1>2 DEF StopBegin
  <1>3. CASE StopSteps
    BY <1>3 DEF StopSteps, StopJoin, StopDeactivate, StopWait
  <1>4. CASE Check \/ PassEnd
    BY <1>4 DEF Check, PassEnd
  <1>5. ASSUME NEW j \in Job, Visit(j) PROVE OneThreadPerJob' /\ NotWorking'
    BY <1>5 DEF Visit
  <1>6. CASE TestWorking \/ TestDue
    BY <1>6 DEF TestWorking, TestDue
  <1>7. CASE Launch
    BY <1>7 DEF Launch
  <1>8. ASSUME NEW j \in Job, Reactivate(j) \/ SelfStop(j)
        PROVE  OneThreadPerJob' /\ NotWorking'
    BY <1>8 DEF Reactivate, SelfStop
  <1>9. ASSUME NEW j \in Job, JobDone(j) PROVE OneThreadPerJob' /\ NotWorking'
    BY <1>9 DEF JobDone
  <1>10. ASSUME NEW j \in Job, JobLast(j) \/ Tick(j)
         PROVE  OneThreadPerJob' /\ NotWorking'
    BY <1>10 DEF JobLast, Tick
  <1>11. CASE UNCHANGED schedulerVars
    BY <1>11 DEF schedulerVars
  <1> QED
    BY <1>1, <1>2, <1>3, <1>4, <1>5, <1>6, <1>7, <1>8, <1>9, <1>10, <1>11
    DEF SchedulerNext, Scheduler

(* There is no scheduler thread when Stop waits for the jobs. *)
LEMMA NextAlive == ASSUME SchedulerInv, [SchedulerNext]_schedulerVars PROVE ThreadAlive'
  <1> USE DEF SchedulerInv, SchedulerTypeOK, ThreadAlive, threadVars, jobVars
  <1>1. CASE Start
    BY <1>1 DEF Start
  <1>2. CASE StopBegin
    BY <1>2 DEF StopBegin
  <1>3. CASE StopSteps
    BY <1>3 DEF StopSteps, StopJoin, StopDeactivate, StopWait
  <1>4. CASE Check \/ PassEnd
    BY <1>4 DEF Check, PassEnd
  <1>5. ASSUME NEW j \in Job, Visit(j) PROVE ThreadAlive'
    BY <1>5 DEF Visit
  <1>6. CASE TestWorking \/ TestDue
    BY <1>6 DEF TestWorking, TestDue
  <1>7. CASE Launch
    BY <1>7 DEF Launch
  <1>8. ASSUME NEW j \in Job, Reactivate(j) \/ SelfStop(j) PROVE ThreadAlive'
    BY <1>8 DEF Reactivate, SelfStop
  <1>9. ASSUME NEW j \in Job, JobDone(j) PROVE ThreadAlive'
    BY <1>9 DEF JobDone
  <1>10. ASSUME NEW j \in Job, JobLast(j) \/ Tick(j) PROVE ThreadAlive'
    BY <1>10 DEF JobLast, Tick
  <1>11. CASE UNCHANGED schedulerVars
    BY <1>11 DEF schedulerVars
  <1> QED
    BY <1>1, <1>2, <1>3, <1>4, <1>5, <1>6, <1>7, <1>8, <1>9, <1>10, <1>11
    DEF SchedulerNext, Scheduler

(* What is inductive of the scheduler holds always. *)
THEOREM SchedulerInvariance == SchedulerSpec => []SchedulerInv
  <1>1. SchedulerInv /\ [SchedulerNext]_schedulerVars => SchedulerInv'
    BY SchedulerNextType, NextOne, NextAlive DEF SchedulerInv
  <1> QED
    BY SchedulerInitInv, <1>1, PTL DEF SchedulerSpec

(* Every variable keeps its type; what the scheduler thread tests is a job. *)
THEOREM SchedulerTypeCorrect == SchedulerSpec => []SchedulerTypeOK
  <1>1. SchedulerInv => SchedulerTypeOK
    BY DEF SchedulerInv
  <1> QED
    BY SchedulerInvariance, <1>1, PTL

(* Never two threads in the JobThreadFunc of one job, and Working tells    *)
(* whether there is one.                                                   *)
THEOREM NeverTwoThreads == SchedulerSpec => []OneThreadPerJob
  <1>1. SchedulerInv => OneThreadPerJob
    BY DEF SchedulerInv
  <1> QED
    BY SchedulerInvariance, <1>1, PTL

(* When Stop has returned no job is at work. *)
THEOREM QuietWhenStopped == SchedulerSpec => []StoppedIsQuiet
  <1>1. SchedulerInv => StoppedIsQuiet
    BY DEF SchedulerInv, ThreadAlive, OneThreadPerJob, StoppedIsQuiet
  <1> QED
    BY SchedulerInvariance, <1>1, PTL

(* One thread for each job that works, and none once Stop has returned. *)
THEOREM AlwaysInHand == SchedulerSpec => []JobsInHand
  <1>1. OneThreadPerJob /\ StoppedIsQuiet => JobsInHand
    BY DEF JobsInHand
  <1> QED
    BY NeverTwoThreads, QuietWhenStopped, <1>1, PTL

(* Once Stop has joined the scheduler thread it waits for ever fewer       *)
(* threads: no job is started again behind the join, so that the wait for  *)
(* one job is not undone by another, however the jobs end.                 *)
THEOREM StopWaitsForFewer ==
    SchedulerSpec =>
        [][stop = "deactivate" \/ stop = "wait" =>
              \A i \in Job : running'[i] <= running[i] /\ (working'[i] => working[i])]_schedulerVars
<1> DEFINE Fewer == \A i \in Job : running'[i] <= running[i] /\ (working'[i] => working[i])
<1>1. ASSUME SchedulerInv, [SchedulerNext]_schedulerVars, stop = "deactivate" \/ stop = "wait"
      PROVE  Fewer
  <2>1. thread = "none" /\ running \in [Job -> Nat] /\ working \in [Job -> BOOLEAN]
    BY <1>1 DEF SchedulerInv, ThreadAlive, SchedulerTypeOK
  <2>2. CASE UNCHANGED <<running, working>>
    BY <2>1, <2>2
  <2>3. ASSUME NEW j \in Job, JobDone(j) PROVE Fewer
    BY <2>1, <2>3 DEF JobDone
  <2>4. ~Launch
    BY <2>1 DEF Launch
  <2>5. CASE Start \/ StopBegin \/ StopSteps
    BY <2>2, <2>5 DEF Start, StopBegin, StopSteps, StopJoin, StopDeactivate, StopWait, jobVars
  <2>6. CASE Scheduler
    BY <2>2, <2>4, <2>6 DEF Scheduler, Check, PassEnd, Visit, TestWorking, TestDue, jobVars
  <2>7. ASSUME NEW j \in Job, Reactivate(j) \/ SelfStop(j) \/ JobLast(j) \/ Tick(j)
        PROVE  Fewer
    BY <2>2, <2>7 DEF Reactivate, SelfStop, JobLast, Tick
  <2>8. CASE UNCHANGED schedulerVars
    BY <2>2, <2>8 DEF schedulerVars, jobVars
  <2> QED BY <1>1, <2>3, <2>5, <2>6, <2>7, <2>8 DEF SchedulerNext
<1> QED BY <1>1, SchedulerInvariance, PTL DEF SchedulerSpec
=============================================================================
