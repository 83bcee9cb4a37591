----------------------------- MODULE PthreadProofs -----------------------------
(***************************************************************************)
(* Proofs about a run with -t pthread (PthreadRun), for every runtime, any *)
(* number of SIGINTs and whichever calls fail: a signal may reach any of   *)
(* the three threads on top of whatever it is doing, so the invariants     *)
(* speak of all the contexts on all the stacks.                            *)
(***************************************************************************)
EXTENDS PthreadRun, TLAPS

Frame == [ctx : Sigs \cup {"base"}, at : Labels]

StopLabels == {"sh_enter", "sh_visit", "sh_timer", "sh_stop", "sh_kill0", "sh_kill1", "sh_wait"}
TickLabels == {"mi_enter", "mi_gather", "mi_store", "mi_timeout"}
LeaveLabels == {"it_sched", "it_cleanup", "it_exit"}
MainLabels == {"create0", "create1", "stop_false", "int_sig", "ready_wait", "timer",
               "start", "times", "loop", "suspend", "suspended"}
ThreadLabels == {"setpid", "sigs", "ready", "wait_start", "play"}

\* Where a context of thread l can be: only main's own code and the handlers
\* of SIGINT and SIGALRM get into stop_handler.
LabelsOf(l, c) ==
    CASE c = "base" -> IF l = "main" THEN MainLabels \cup StopLabels ELSE ThreadLabels
      [] c = "INT"  -> StopLabels
      [] c = "ALRM" -> TickLabels \cup StopLabels
      [] OTHER      -> {"it_enter"} \cup LeaveLabels

\* A stack has the thread's own code at the bottom and handlers on top of it.
ShapeOK ==
    /\ frames \in [Lwps -> Seq(Frame)] /\ frames["main"] # <<>>
    /\ \A l \in Lwps : \A i \in DOMAIN frames[l] :
          /\ i = 1 <=> frames[l][i].ctx = "base"
          /\ frames[l][i].at \in LabelsOf(l, frames[l][i].ctx)

\* Where thread l's own code is, whatever handlers run on top of it, and
\* which labels some context is at.
Bottom(l) == IF frames[l] = <<>> THEN "none" ELSE frames[l][1].at
Runs(L) == \E l \in Lwps : \E i \in DOMAIN frames[l] : frames[l][i].at \in L

-----------------------------------------------------------------------------
\* What the three ways to change a stack do

\* The running context of a thread.
LEMMA TopFrame ==
  ASSUME ShapeOK, NEW l \in Lwps, NEW label, At(l, label)
  PROVE  /\ frames[l] \in Seq(Frame) /\ Len(frames[l]) \in Nat /\ Len(frames[l]) >= 1
         /\ Len(frames[l]) \in DOMAIN frames[l] /\ 1 \in DOMAIN frames[l]
         /\ DOMAIN frames[l] = 1..Len(frames[l])
         /\ frames[l][Len(frames[l])] \in Frame
         /\ frames[l][Len(frames[l])].at = label
<1>1. frames[l] \in Seq(Frame) /\ frames[l] # <<>>
  BY DEF ShapeOK, At, Born
<1>2. Len(frames[l]) \in Nat /\ Len(frames[l]) >= 1 /\ DOMAIN frames[l] = 1..Len(frames[l])
  BY <1>1
<1>3. frames[l][Len(frames[l])] \in Frame
  BY <1>1, <1>2
<1> QED
  BY <1>1, <1>2, <1>3 DEF At, Last

\* Goto moves the running context and nothing else.
LEMMA MovedFrames ==
  ASSUME ShapeOK, NEW l \in Lwps, NEW from, NEW to \in Labels, At(l, from), NEW g, g = Moved(l, to)
  PROVE  /\ g \in [Lwps -> Seq(Frame)]
         /\ \A k \in Lwps : DOMAIN g[k] = DOMAIN frames[k] /\ Len(g[k]) = Len(frames[k])
         /\ \A k \in Lwps : k # l => g[k] = frames[k]
         /\ \A i \in DOMAIN frames[l] : i # Len(frames[l]) => g[l][i] = frames[l][i]
         /\ g[l][Len(frames[l])].ctx = frames[l][Len(frames[l])].ctx
         /\ g[l][Len(frames[l])].at = to
<1> DEFINE s == frames[l]
           n == Len(frames[l])
           f == [frames[l][Len(frames[l])] EXCEPT !.at = to]
           t == [s EXCEPT ![n] = f]
<1>1. /\ s \in Seq(Frame) /\ n \in Nat /\ n >= 1 /\ n \in DOMAIN s /\ DOMAIN s = 1..n
      /\ s[n] \in Frame /\ frames \in [Lwps -> Seq(Frame)]
  BY TopFrame DEF ShapeOK
<1>2. f \in Frame /\ f.ctx = s[n].ctx /\ f.at = to
  BY <1>1 DEF Frame
<1>3. g = [frames EXCEPT ![l] = t]
  BY <1>1 DEF Moved
<1> HIDE DEF f
<1>4. t \in Seq(Frame) /\ Len(t) = n /\ DOMAIN t = DOMAIN s /\ t[n] = f
      /\ \A i \in DOMAIN s : i # n => t[i] = s[i]
  BY <1>1, <1>2
<1> HIDE DEF t
<1> QED
  BY <1>1, <1>2, <1>3, <1>4

\* A handler that returns takes its context from the stack; the context below
\* goes on, from sigsuspend to the test of stop.
LEMMA PoppedFrames ==
  ASSUME ShapeOK, NEW l \in Lwps, NEW from, At(l, from), Len(frames[l]) > 1, frames' = Popped(l)
  PROVE  /\ frames' \in [Lwps -> Seq(Frame)]
         /\ frames'[l] # <<>> /\ DOMAIN frames'[l] \subseteq DOMAIN frames[l]
         /\ \A k \in Lwps : k # l => frames'[k] = frames[k]
         /\ \A i \in DOMAIN frames'[l] :
               /\ frames'[l][i].ctx = frames[l][i].ctx
               /\ \/ frames'[l][i].at = frames[l][i].at
                  \/ frames[l][i].at = "suspended" /\ frames'[l][i].at = "loop"
<1> DEFINE s == frames[l]
           n == Len(frames[l])
           rest == Front(frames[l])
           m == Len(rest)
           f == [rest[m] EXCEPT !.at = "loop"]
           t == [rest EXCEPT ![m] = f]
<1>1. /\ s \in Seq(Frame) /\ n \in Nat /\ n > 1 /\ DOMAIN s = 1..n
      /\ frames \in [Lwps -> Seq(Frame)]
  BY TopFrame DEF ShapeOK
<1>2. /\ rest \in Seq(Frame) /\ m = n - 1 /\ DOMAIN rest = 1..(n - 1)
      /\ \A i \in 1..(n - 1) : rest[i] = s[i]
  BY <1>1 DEF Front
<1>3. Last(rest) = rest[m]
  BY DEF Last
<1> HIDE DEF rest, m
<1>4. m \in DOMAIN rest /\ rest[m] \in Frame
  BY <1>1, <1>2
<1>5. f \in Frame /\ f.ctx = rest[m].ctx /\ f.at = "loop"
  BY <1>4 DEF Frame, Labels
<1>6. \/ frames' = [frames EXCEPT ![l] = rest]
      \/ frames' = [frames EXCEPT ![l] = t] /\ rest[m].at = "suspended"
  BY <1>3, <1>4 DEF Popped, rest, m
<1> HIDE DEF f
<1>7. /\ t \in Seq(Frame) /\ DOMAIN t = DOMAIN rest /\ t[m] = f
      /\ \A i \in DOMAIN rest : i # m => t[i] = rest[i]
  BY <1>2, <1>4, <1>5
<1> HIDE DEF t
<1>8. CASE frames' = [frames EXCEPT ![l] = rest]
  <2>1. frames'[l] = rest /\ \A k \in Lwps : k # l => frames'[k] = frames[k]
    BY <1>1, <1>8
  <2>2. rest # <<>> /\ DOMAIN rest \subseteq DOMAIN s
    BY <1>1, <1>2
  <2>3. frames' \in [Lwps -> Seq(Frame)]
    BY <1>1, <1>2, <1>8
  <2>4. \A i \in DOMAIN rest : rest[i] = s[i]
    BY <1>2
  <2> QED
    BY <2>1, <2>2, <2>3, <2>4
<1>9. CASE frames' = [frames EXCEPT ![l] = t] /\ rest[m].at = "suspended"
  <2>1. frames'[l] = t /\ \A k \in Lwps : k # l => frames'[k] = frames[k]
    BY <1>1, <1>9
  <2>2. t # <<>> /\ DOMAIN t \subseteq DOMAIN s
    BY <1>1, <1>2, <1>4, <1>7
  <2>3. frames' \in [Lwps -> Seq(Frame)]
    BY <1>1, <1>7, <1>9
  <2>4. \A i \in DOMAIN t :
           /\ t[i].ctx = s[i].ctx
           /\ t[i].at = s[i].at \/ (s[i].at = "suspended" /\ t[i].at = "loop")
    BY <1>2, <1>4, <1>5, <1>7, <1>9
  <2> QED
    BY <2>1, <2>2, <2>3, <2>4
<1> QED
  BY <1>6, <1>8, <1>9

\* A thread that does not run its own code runs on top of it.
LEMMA AboveBase ==
  ASSUME ShapeOK, NEW l \in Lwps, NEW from \in TickLabels \cup {"it_enter"}, At(l, from)
  PROVE  Len(frames[l]) > 1
<1>1. /\ Len(frames[l]) \in Nat /\ Len(frames[l]) >= 1 /\ Len(frames[l]) \in DOMAIN frames[l]
      /\ frames[l][Len(frames[l])].at = from
  BY TopFrame
<1>2. from \in LabelsOf(l, frames[l][Len(frames[l])].ctx)
  BY <1>1 DEF ShapeOK
<1>3. frames[l][Len(frames[l])].ctx # "base"
  BY <1>2 DEF LabelsOf, TickLabels, MainLabels, StopLabels, ThreadLabels
<1>4. Len(frames[l]) # 1
  BY <1>1, <1>3 DEF ShapeOK
<1> DEFINE n == Len(frames[l])
<1>5. n \in Nat /\ n >= 1 /\ n # 1
  BY <1>1, <1>4
<1> HIDE DEF n
<1>6. n > 1
  BY <1>5
<1> QED
  BY <1>6 DEF n

\* Goto, seen from outside.
LEMMA GotoKeeps ==
  ASSUME ShapeOK, NEW l \in Lwps, NEW from, NEW to \in Labels, At(l, from), frames' = Moved(l, to),
         \A c : from \in LabelsOf(l, c) => to \in LabelsOf(l, c)
  PROVE  /\ ShapeOK'
         /\ \A k \in Lwps : \/ Bottom(k)' = Bottom(k)
                            \/ k = l /\ Bottom(k) = from /\ Bottom(k)' = to
         /\ \A L : Runs(L)' => Runs(L) \/ to \in L
         /\ Len(frames[l]) = 1 => Bottom(l)' = to
<1> DEFINE n == Len(frames[l])
<1>1. /\ frames[l] \in Seq(Frame) /\ n \in Nat /\ n >= 1
      /\ n \in DOMAIN frames[l] /\ 1 \in DOMAIN frames[l]
      /\ frames[l][n] \in Frame /\ frames[l][n].at = from
  BY TopFrame
<1>2. /\ frames' \in [Lwps -> Seq(Frame)]
      /\ \A k \in Lwps : DOMAIN frames'[k] = DOMAIN frames[k] /\ Len(frames'[k]) = Len(frames[k])
      /\ \A k \in Lwps : k # l => frames'[k] = frames[k]
      /\ \A i \in DOMAIN frames[l] : i # n => frames'[l][i] = frames[l][i]
      /\ frames'[l][n].ctx = frames[l][n].ctx
      /\ frames'[l][n].at = to
  BY MovedFrames
<1> HIDE DEF n
<1>3. \A k \in Lwps : \A i \in DOMAIN frames'[k] :
         /\ i \in DOMAIN frames[k] /\ frames'[k][i].ctx = frames[k][i].ctx
         /\ \/ frames'[k][i].at = frames[k][i].at
            \/ k = l /\ frames[k][i].at = from /\ frames'[k][i].at = to
  BY <1>1, <1>2
<1>4. \A k \in Lwps : frames'[k] = <<>> <=> frames[k] = <<>>
  BY <1>2 DEF ShapeOK
<1>5. ShapeOK'
  <2>1. \A k \in Lwps : \A i \in DOMAIN frames'[k] :
           /\ i = 1 <=> frames'[k][i].ctx = "base"
           /\ frames'[k][i].at \in LabelsOf(k, frames'[k][i].ctx)
    <3> SUFFICES ASSUME NEW k \in Lwps, NEW i \in DOMAIN frames'[k]
                 PROVE  /\ i = 1 <=> frames'[k][i].ctx = "base"
                        /\ frames'[k][i].at \in LabelsOf(k, frames'[k][i].ctx)
      OBVIOUS
    <3>1. /\ i \in DOMAIN frames[k] /\ frames'[k][i].ctx = frames[k][i].ctx
          /\ \/ frames'[k][i].at = frames[k][i].at
             \/ k = l /\ frames[k][i].at = from /\ frames'[k][i].at = to
      BY <1>3
    <3>2. /\ i = 1 <=> frames[k][i].ctx = "base"
          /\ frames[k][i].at \in LabelsOf(k, frames[k][i].ctx)
      BY <3>1 DEF ShapeOK
    <3> QED
      BY <3>1, <3>2
  <2>2. "main" \in Lwps
    BY DEF Lwps
  <2> QED
    BY <1>2, <1>4, <2>1, <2>2 DEF ShapeOK
<1>6. \A k \in Lwps : \/ Bottom(k)' = Bottom(k)
                      \/ k = l /\ Bottom(k) = from /\ Bottom(k)' = to
  <2> SUFFICES ASSUME NEW k \in Lwps
               PROVE  \/ Bottom(k)' = Bottom(k)
                      \/ k = l /\ Bottom(k) = from /\ Bottom(k)' = to
    OBVIOUS
  <2>1. CASE frames[k] = <<>>
    BY <1>4, <2>1 DEF Bottom
  <2>2. CASE frames[k] # <<>>
    <3>1. 1 \in DOMAIN frames'[k]
      BY <1>2, <2>2 DEF ShapeOK
    <3> QED
      BY <1>3, <1>4, <2>2, <3>1 DEF Bottom
  <2> QED
    BY <2>1, <2>2
<1>7. \A L : Runs(L)' => Runs(L) \/ to \in L
  BY <1>3 DEF Runs
<1>8. n = 1 => Bottom(l)' = to
  BY <1>2, <1>4 DEF Bottom, At, Born
<1> QED
  BY <1>5, <1>6, <1>7, <1>8 DEF n

\* Return, seen from outside.
LEMMA ReturnKeeps ==
  ASSUME ShapeOK, NEW l \in Lwps, NEW from, At(l, from), Len(frames[l]) > 1, frames' = Popped(l)
  PROVE  /\ ShapeOK'
         /\ \A k \in Lwps : \/ Bottom(k)' = Bottom(k)
                            \/ Bottom(k) = "suspended" /\ Bottom(k)' = "loop"
         /\ \A L : Runs(L)' => Runs(L) \/ "loop" \in L
<1>1. /\ frames' \in [Lwps -> Seq(Frame)]
      /\ frames'[l] # <<>> /\ DOMAIN frames'[l] \subseteq DOMAIN frames[l]
      /\ \A k \in Lwps : k # l => frames'[k] = frames[k]
      /\ \A i \in DOMAIN frames'[l] :
            /\ frames'[l][i].ctx = frames[l][i].ctx
            /\ \/ frames'[l][i].at = frames[l][i].at
               \/ frames[l][i].at = "suspended" /\ frames'[l][i].at = "loop"
  BY PoppedFrames
<1>2. \A k \in Lwps : \A i \in DOMAIN frames'[k] :
         /\ i \in DOMAIN frames[k] /\ frames'[k][i].ctx = frames[k][i].ctx
         /\ \/ frames'[k][i].at = frames[k][i].at
            \/ frames[k][i].at = "suspended" /\ frames'[k][i].at = "loop"
  BY <1>1
<1>3. \A k \in Lwps : frames'[k] = <<>> <=> frames[k] = <<>>
  BY <1>1 DEF At, Born
<1>4. \A k \in Lwps : \A c : "suspended" \in LabelsOf(k, c) => "loop" \in LabelsOf(k, c)
  BY DEF LabelsOf, MainLabels, StopLabels, ThreadLabels, TickLabels, LeaveLabels
<1>5. ShapeOK'
  <2>1. \A k \in Lwps : \A i \in DOMAIN frames'[k] :
           /\ i = 1 <=> frames'[k][i].ctx = "base"
           /\ frames'[k][i].at \in LabelsOf(k, frames'[k][i].ctx)
    <3> SUFFICES ASSUME NEW k \in Lwps, NEW i \in DOMAIN frames'[k]
                 PROVE  /\ i = 1 <=> frames'[k][i].ctx = "base"
                        /\ frames'[k][i].at \in LabelsOf(k, frames'[k][i].ctx)
      OBVIOUS
    <3>1. /\ i \in DOMAIN frames[k] /\ frames'[k][i].ctx = frames[k][i].ctx
          /\ \/ frames'[k][i].at = frames[k][i].at
             \/ frames[k][i].at = "suspended" /\ frames'[k][i].at = "loop"
      BY <1>2
    <3>2. /\ i = 1 <=> frames[k][i].ctx = "base"
          /\ frames[k][i].at \in LabelsOf(k, frames[k][i].ctx)
      BY <3>1 DEF ShapeOK
    <3> QED
      BY <1>4, <3>1, <3>2
  <2>2. "main" \in Lwps
    BY DEF Lwps
  <2> QED
    BY <1>1, <1>3, <2>1, <2>2 DEF ShapeOK
<1>6. \A k \in Lwps : \/ Bottom(k)' = Bottom(k)
                      \/ Bottom(k) = "suspended" /\ Bottom(k)' = "loop"
  <2> SUFFICES ASSUME NEW k \in Lwps
               PROVE  \/ Bottom(k)' = Bottom(k)
                      \/ Bottom(k) = "suspended" /\ Bottom(k)' = "loop"
    OBVIOUS
  <2>1. CASE frames[k] = <<>>
    BY <1>3, <2>1 DEF Bottom
  <2>2. CASE frames[k] # <<>>
    <3>1. 1 \in DOMAIN frames'[k]
      BY <1>1, <1>3, <2>2
    <3> QED
      BY <1>2, <1>3, <2>2, <3>1 DEF Bottom
  <2> QED
    BY <2>1, <2>2
<1>7. \A L : Runs(L)' => Runs(L) \/ "loop" \in L
  BY <1>2 DEF Runs
<1> QED
  BY <1>5, <1>6, <1>7

\* A signal that is delivered, seen from outside.
LEMMA DeliverKeeps ==
  ASSUME ShapeOK, NEW s \in Sigs, NEW l \in Lwps, Deliver(s, l)
  PROVE  /\ ShapeOK'
         /\ \A k \in Lwps : Bottom(k)' = Bottom(k)
         /\ \A L : Runs(L)' => Runs(L) \/ Entry(s) \in L
<1> DEFINE f == [ctx |-> s, at |-> Entry(s)]
           t == Append(frames[l], f)
           n == Len(frames[l])
<1>1. frames \in [Lwps -> Seq(Frame)] /\ frames[l] # <<>> /\ frames[l] \in Seq(Frame)
  BY DEF ShapeOK, Deliver, Born
<1>2. f \in Frame /\ f.ctx = s /\ f.at = Entry(s) /\ s # "base" /\ Entry(s) \in LabelsOf(l, s)
  BY DEF Frame, Labels, Entry, Sigs, LabelsOf, StopLabels, TickLabels
<1>3. frames' = [frames EXCEPT ![l] = t]
  BY DEF Deliver
<1> HIDE DEF f
<1>4. /\ n \in Nat /\ n >= 1 /\ DOMAIN frames[l] = 1..n
      /\ t \in Seq(Frame) /\ DOMAIN t = 1..(n + 1) /\ t[n + 1] = f /\ t # <<>>
      /\ \A i \in 1..n : t[i] = frames[l][i]
  <2>1. n \in Nat /\ n >= 1 /\ DOMAIN frames[l] = 1..n
    BY <1>1
  <2>2. t \in Seq(Frame) /\ Len(t) = n + 1
    BY <1>1, <1>2
  <2>3. DOMAIN t = 1..(n + 1) /\ t # <<>>
    BY <2>1, <2>2
  <2>4. t[n + 1] = f
    BY <1>1, <1>2, <2>1
  <2>5. \A i \in 1..n : t[i] = frames[l][i]
    BY <1>1, <1>2, <2>1
  <2> QED
    BY <2>1, <2>2, <2>3, <2>4, <2>5
<1> HIDE DEF t, n
<1>5. /\ frames' \in [Lwps -> Seq(Frame)] /\ frames'[l] = t
      /\ \A k \in Lwps : k # l => frames'[k] = frames[k]
  BY <1>1, <1>3, <1>4
<1>6. \A k \in Lwps : \A i \in DOMAIN frames'[k] :
         \/ i \in DOMAIN frames[k] /\ frames'[k][i] = frames[k][i]
         \/ k = l /\ i # 1 /\ frames'[k][i] = f
  BY <1>4, <1>5
<1>7. ShapeOK'
  <2>1. \A k \in Lwps : \A i \in DOMAIN frames'[k] :
           /\ i = 1 <=> frames'[k][i].ctx = "base"
           /\ frames'[k][i].at \in LabelsOf(k, frames'[k][i].ctx)
    BY <1>2, <1>6 DEF ShapeOK
  <2>2. frames'["main"] # <<>>
    BY <1>4, <1>5 DEF ShapeOK, Lwps
  <2> QED
    BY <1>5, <2>1, <2>2 DEF ShapeOK
<1>8. \A k \in Lwps : Bottom(k)' = Bottom(k)
  BY <1>1, <1>4, <1>5 DEF Bottom
<1>9. \A L : Runs(L)' => Runs(L) \/ Entry(s) \in L
  BY <1>2, <1>6 DEF Runs
<1> QED
  BY <1>7, <1>8, <1>9

\* pthread_create gives the new thread a stack of its own.
LEMMA CreateKeeps ==
  ASSUME ShapeOK, NEW n \in Threads, NEW from \in {"create0", "create1"},
         NEW to \in {"create1", "stop_false"}, At("main", from),
         frames' = [Moved("main", to) EXCEPT ![Lwp(n)] = <<[ctx |-> "base", at |-> "setpid"]>>]
  PROVE  /\ ShapeOK'
         /\ \/ Bottom("main")' = Bottom("main")
            \/ Bottom("main") = from /\ Bottom("main")' = to
         /\ \A k \in {"ping", "pong"} : Bottom(k)' = Bottom(k) \/ Bottom(k)' = "setpid"
         /\ \A L : Runs(L)' => Runs(L) \/ to \in L \/ "setpid" \in L
<1> DEFINE g == Moved("main", to)
           m == Len(frames["main"])
           f == [ctx |-> "base", at |-> "setpid"]
<1>1. "main" \in Lwps /\ Lwp(n) \in {"ping", "pong"} /\ to \in Labels /\ Lwp(n) \in Lwps
  BY DEF Lwps, Lwp, Labels
<1>2. /\ frames["main"] \in Seq(Frame) /\ m \in Nat /\ m >= 1
      /\ m \in DOMAIN frames["main"] /\ 1 \in DOMAIN frames["main"]
      /\ frames["main"][m] \in Frame /\ frames["main"][m].at = from
  BY <1>1, TopFrame
<1>3. /\ g \in [Lwps -> Seq(Frame)]
      /\ \A k \in Lwps : DOMAIN g[k] = DOMAIN frames[k] /\ Len(g[k]) = Len(frames[k])
      /\ \A k \in Lwps : k # "main" => g[k] = frames[k]
      /\ \A i \in DOMAIN frames["main"] : i # m => g["main"][i] = frames["main"][i]
      /\ g["main"][m].ctx = frames["main"][m].ctx
      /\ g["main"][m].at = to
  BY <1>1, MovedFrames
<1> HIDE DEF g, m
<1>4. f \in Frame /\ f.ctx = "base" /\ f.at = "setpid"
  BY DEF Frame, Labels
<1>5. frames' = [g EXCEPT ![Lwp(n)] = <<f>>]
  BY DEF g
<1> HIDE DEF f
<1>6. <<f>> \in Seq(Frame) /\ DOMAIN <<f>> = {1} /\ <<f>>[1] = f /\ <<f>> # <<>>
  BY <1>4
<1>7. /\ frames' \in [Lwps -> Seq(Frame)] /\ frames'["main"] = g["main"]
      /\ frames'[Lwp(n)] = <<f>>
      /\ \A k \in Lwps : k # "main" /\ k # Lwp(n) => frames'[k] = frames[k]
  BY <1>1, <1>3, <1>5, <1>6
<1>8. \A k \in Lwps : \A i \in DOMAIN frames'[k] :
         \/ /\ i \in DOMAIN frames[k] /\ frames'[k][i].ctx = frames[k][i].ctx
            /\ \/ frames'[k][i].at = frames[k][i].at
               \/ k = "main" /\ frames[k][i].at = from /\ frames'[k][i].at = to
         \/ k = Lwp(n) /\ i = 1 /\ frames'[k][i] = f
  <2>1. \A i \in DOMAIN frames'["main"] :
           /\ i \in DOMAIN frames["main"] /\ frames'["main"][i].ctx = frames["main"][i].ctx
           /\ \/ frames'["main"][i].at = frames["main"][i].at
              \/ frames["main"][i].at = from /\ frames'["main"][i].at = to
    <3> SUFFICES ASSUME NEW i \in DOMAIN g["main"]
                 PROVE  /\ i \in DOMAIN frames["main"] /\ g["main"][i].ctx = frames["main"][i].ctx
                        /\ \/ g["main"][i].at = frames["main"][i].at
                           \/ frames["main"][i].at = from /\ g["main"][i].at = to
      BY <1>7
    <3>1. i \in DOMAIN frames["main"]
      BY <1>1, <1>3
    <3>2. CASE i = m
      BY <1>2, <1>3, <3>1, <3>2
    <3>3. CASE i # m
      BY <1>3, <3>1, <3>3
    <3> QED
      BY <3>2, <3>3
  <2>2. \A i \in DOMAIN frames'[Lwp(n)] : i = 1 /\ frames'[Lwp(n)][i] = f
    BY <1>6, <1>7
  <2>3. \A k \in Lwps : k # "main" /\ k # Lwp(n) => frames'[k] = frames[k]
    BY <1>7
  <2> QED
    BY <2>1, <2>2, <2>3
<1>9. \A c : from \in LabelsOf("main", c) => to \in LabelsOf("main", c)
  BY DEF LabelsOf, MainLabels, StopLabels, ThreadLabels, TickLabels, LeaveLabels
<1>10. "setpid" \in LabelsOf(Lwp(n), "base")
  BY DEF LabelsOf, Lwp, ThreadLabels
<1>11. frames'["main"] # <<>> /\ 1 \in DOMAIN frames'["main"]
  BY <1>1, <1>2, <1>3, <1>7
<1>12. ShapeOK'
  <2>1. \A k \in Lwps : \A i \in DOMAIN frames'[k] :
           /\ i = 1 <=> frames'[k][i].ctx = "base"
           /\ frames'[k][i].at \in LabelsOf(k, frames'[k][i].ctx)
    <3> SUFFICES ASSUME NEW k \in Lwps, NEW i \in DOMAIN frames'[k]
                 PROVE  /\ i = 1 <=> frames'[k][i].ctx = "base"
                        /\ frames'[k][i].at \in LabelsOf(k, frames'[k][i].ctx)
      OBVIOUS
    <3>1. CASE /\ i \in DOMAIN frames[k] /\ frames'[k][i].ctx = frames[k][i].ctx
               /\ \/ frames'[k][i].at = frames[k][i].at
                  \/ k = "main" /\ frames[k][i].at = from /\ frames'[k][i].at = to
      <4>1. /\ i = 1 <=> frames[k][i].ctx = "base"
            /\ frames[k][i].at \in LabelsOf(k, frames[k][i].ctx)
        BY <3>1 DEF ShapeOK
      <4> QED
        BY <1>9, <3>1, <4>1
    <3>2. CASE k = Lwp(n) /\ i = 1 /\ frames'[k][i] = f
      BY <1>4, <1>10, <3>2
    <3> QED
      BY <1>8, <3>1, <3>2
  <2> QED
    BY <1>7, <1>11, <2>1 DEF ShapeOK
<1>13. \/ Bottom("main")' = Bottom("main")
       \/ Bottom("main") = from /\ Bottom("main")' = to
  BY <1>1, <1>2, <1>8, <1>11 DEF Bottom, ShapeOK
<1>14. \A k \in {"ping", "pong"} : Bottom(k)' = Bottom(k) \/ Bottom(k)' = "setpid"
  BY <1>4, <1>6, <1>7 DEF Bottom, Lwps
<1>15. \A L : Runs(L)' => Runs(L) \/ to \in L \/ "setpid" \in L
  BY <1>4, <1>8 DEF Runs
<1> QED
  BY <1>12, <1>13, <1>14, <1>15

-----------------------------------------------------------------------------
\* The inductive invariant

\* The types of all but the stacks.
PlainTypes ==
    /\ {statsTimer, stop, start, timeoutSet, visited, inInterrupt, printed, torn, armed} \subseteq BOOLEAN
    /\ {ready, sched} \subseteq [Threads -> BOOLEAN]
    /\ pid \in [Threads -> {NoPid, OwnPid, DeadPid}]
    /\ lastStats \in Unset..Runtime /\ now \in Unset..Runtime /\ age \in Unset..Runtime
    /\ proc \in {"running", "ok", "failed", "killed", "faulted"}
    /\ pend \subseteq Sigs /\ disp \in [Sigs -> {"dfl", "ign", "handler"}]
    /\ sigints \in 0..MaxSigint

\* How far main and the players have come in do_monitor_work and
\* do_thread_work.
NoHandler == {"create0", "create1", "stop_false", "int_sig"}
NotReady == NoHandler \cup {"ready_wait"}
Early == NotReady \cup {"timer", "start", "times"}
HasHandler == {"ready", "wait_start", "play"}

\* Each of them installs its handlers before it goes on, and main starts the
\* threads when both are ready.
OrderOK ==
    /\ Bottom("main") \notin NoHandler => disp["INT"] = "handler"
    /\ Bottom("main") \notin NotReady => ready[0] /\ ready[1]
    /\ Bottom("main") \in Early => age = Unset
    /\ \A n \in Threads : Bottom(Lwp(n)) \in HasHandler \/ ready[n] => disp[Usr(n)] = "handler"
    /\ start => ready[0] /\ ready[1] /\ disp["INT"] = "handler" /\ proc # "killed"

\* The run is being stopped, somewhere, or has been.
Stopping == StopLabels \cup LeaveLabels
Ended == visited \/ stop \/ torn \/ Runs(Stopping) \/ proc \notin {"running", "failed"}

\* Nobody stops a run before its time but a SIGINT.
FullOK ==
    sigints = 0 => "INT" \notin pend /\ (Ended => age >= Runtime)

\* Samples are taken in the past.
TimeOK == lastStats <= age /\ now <= age

PthreadInv == PlainTypes /\ ShapeOK /\ OrderOK /\ FullOK /\ TimeOK

\* What the constants are.
LEMMA PthreadConstants == Runtime \in Nat /\ Runtime >= 1 /\ MaxSigint \in Nat
  BY PthreadAssumption DEF PthreadAssumption

\* A move of a thread's own code that brings it no further than it was.
NoFurther(b, c) ==
    /\ c \notin NoHandler => b \notin NoHandler
    /\ c \notin NotReady => b \notin NotReady
    /\ c \in Early => b \in Early
    /\ c \in HasHandler => b \in HasHandler

\* A step that moves no thread further keeps the order.
LEMMA OrderKept ==
  ASSUME OrderOK, UNCHANGED <<ready, start>>, age' = age \/ Bottom("main") \notin Early,
         \A s \in Sigs : s # "ALRM" => disp'[s] = disp[s],
         start => proc' # "killed",
         \A k \in Lwps : Bottom(k)' = Bottom(k) \/ NoFurther(Bottom(k), Bottom(k)')
  PROVE  OrderOK'
<1>1. \A k \in Lwps : NoFurther(Bottom(k), Bottom(k)')
  BY DEF NoFurther
<1>2. /\ "main" \in Lwps /\ \A n \in Threads : Lwp(n) \in Lwps
      /\ \A n \in Threads : Usr(n) \in Sigs /\ Usr(n) # "ALRM"
      /\ "INT" \in Sigs
  BY DEF Lwps, Lwp, Usr, Sigs
<1>3. NoFurther(Bottom("main"), Bottom("main")') /\ \A n \in Threads : NoFurther(Bottom(Lwp(n)), Bottom(Lwp(n))')
  BY <1>1, <1>2
<1>4. disp'["INT"] = disp["INT"] /\ \A n \in Threads : disp'[Usr(n)] = disp[Usr(n)]
  BY <1>2
<1> QED
  BY <1>3, <1>4 DEF OrderOK, NoFurther

\* A step that begins no end keeps the promise.
LEMMA FullKept ==
  ASSUME FullOK, UNCHANGED <<age, sigints>>, "INT" \in pend' => "INT" \in pend,
         Ended' => Ended \/ age >= Runtime
  PROVE  FullOK'
  BY DEF FullOK

\* A context in stop_handler, or in the end of interrupt_thread, ends the run.
LEMMA AtStopping ==
  ASSUME ShapeOK, NEW l \in Lwps, NEW label \in Stopping, At(l, label)
  PROVE  Ended
<1>1. Len(frames[l]) \in DOMAIN frames[l] /\ frames[l][Len(frames[l])].at = label
  BY TopFrame
<1> QED
  BY <1>1 DEF Ended, Runs

\* A thread's own code runs only when nothing is on top of it.
LEMMA AtBottom ==
  ASSUME ShapeOK, NEW l \in Lwps, NEW label \in MainLabels \cup ThreadLabels, At(l, label)
  PROVE  Len(frames[l]) = 1 /\ Bottom(l) = label
<1>1. Len(frames[l]) \in DOMAIN frames[l] /\ frames[l][Len(frames[l])].at = label
  BY TopFrame
<1>2. label \in LabelsOf(l, frames[l][Len(frames[l])].ctx)
  BY <1>1 DEF ShapeOK
<1>3. frames[l][Len(frames[l])].ctx = "base"
  BY <1>2 DEF LabelsOf, MainLabels, ThreadLabels, StopLabels, TickLabels, LeaveLabels
<1>4. Len(frames[l]) = 1
  BY <1>1, <1>3 DEF ShapeOK
<1> QED
  BY <1>1, <1>4 DEF Bottom, At, Born

\* The invariant holds initially.
LEMMA PthreadInit == Init => PthreadInv
<1> SUFFICES ASSUME Init PROVE PthreadInv
  OBVIOUS
<1>1. PlainTypes
  <2>1. Unset \in Unset..Runtime /\ 0 \in 0..MaxSigint
    BY PthreadConstants DEF Unset
  <2>2. /\ ready \in [Threads -> BOOLEAN] /\ sched \in [Threads -> BOOLEAN]
        /\ pid \in [Threads -> {NoPid, OwnPid, DeadPid}]
        /\ disp \in [Sigs -> {"dfl", "ign", "handler"}]
    BY DEF Init
  <2> QED
    BY <2>1, <2>2 DEF Init, PlainTypes
<1> DEFINE f == [ctx |-> "base", at |-> "create0"]
<1>2. f \in Frame /\ f.ctx = "base" /\ f.at = "create0"
  BY DEF Frame, Labels
<1>3. frames = [l \in Lwps |-> IF l = "main" THEN <<f>> ELSE <<>>]
  BY DEF Init
<1> HIDE DEF f
<1>4. /\ <<f>> \in Seq(Frame) /\ <<>> \in Seq(Frame) /\ DOMAIN <<f>> = {1} /\ <<f>>[1] = f
      /\ <<f>> # <<>> /\ DOMAIN <<>> = {}
  BY <1>2
<1>5. /\ frames \in [Lwps -> Seq(Frame)] /\ frames["main"] = <<f>>
      /\ \A l \in Lwps : l # "main" => frames[l] = <<>>
  BY <1>3, <1>4 DEF Lwps
<1>6. ShapeOK
  <2>1. "create0" \in LabelsOf("main", "base")
    BY DEF LabelsOf, MainLabels
  <2> QED
    BY <1>2, <1>4, <1>5, <2>1 DEF ShapeOK
<1>7. /\ Bottom("main") = "create0"
      /\ \A n \in Threads : Bottom(Lwp(n)) = "none"
  BY <1>2, <1>4, <1>5 DEF Bottom, Lwps, Lwp
<1>8. OrderOK
  BY <1>7 DEF Init, OrderOK, NoHandler, NotReady, HasHandler, Threads
<1>9. ~Runs(Stopping)
  BY <1>2, <1>4, <1>5 DEF Runs, Stopping, StopLabels, LeaveLabels
<1>10. FullOK /\ TimeOK
  BY <1>9 DEF Init, FullOK, Ended, TimeOK, Unset
<1> QED
  BY <1>1, <1>6, <1>8, <1>10 DEF PthreadInv

-----------------------------------------------------------------------------
\* The steps

\* What a step leaves alone when it begins no end and moves no thread further.
Quiet ==
    /\ UNCHANGED <<ready, start, age, sigints>>
    /\ \A s \in Sigs : s # "ALRM" => disp'[s] = disp[s]
    /\ "INT" \in pend' => "INT" \in pend
    /\ visited' \/ stop' \/ torn' => Ended

\* A quiet step that only moves a context.
LEMMA QuietGoto ==
  ASSUME PthreadInv, NEW l \in Lwps, NEW from, NEW to \in Labels, At(l, from), Goto(l, to), Quiet,
         \A c : from \in LabelsOf(l, c) => to \in LabelsOf(l, c),
         NoFurther(from, to), to \in Stopping => Ended \/ age >= Runtime
  PROVE  ShapeOK' /\ OrderOK' /\ FullOK'
<1>1. frames' = Moved(l, to) /\ proc' = proc /\ proc = "running"
  BY DEF Goto, At
<1>2. /\ ShapeOK'
      /\ \A k \in Lwps : \/ Bottom(k)' = Bottom(k)
                         \/ k = l /\ Bottom(k) = from /\ Bottom(k)' = to
      /\ \A L : Runs(L)' => Runs(L) \/ to \in L
  BY <1>1, GotoKeeps DEF PthreadInv
<1>3. \A k \in Lwps : Bottom(k)' = Bottom(k) \/ NoFurther(Bottom(k), Bottom(k)')
  BY <1>2
<1>4. OrderOK'
  <2>1. start => proc' # "killed"
    BY <1>1
  <2> QED
    BY <1>3, <2>1, OrderKept DEF PthreadInv, Quiet
<1>5. Runs(Stopping)' => Runs(Stopping) \/ to \in Stopping
  <2>1. PICK S : S = Stopping
    OBVIOUS
  <2>2. Runs(S)' => Runs(S) \/ to \in S
    BY <1>2
  <2> QED
    BY <2>1, <2>2 DEF Runs
<1>6. Ended' => Ended \/ age >= Runtime
  BY <1>1, <1>5 DEF Ended, Quiet
<1> QED
  BY <1>2, <1>4, <1>6, FullKept DEF PthreadInv, Quiet

\* A quiet step that returns from a handler.
LEMMA QuietReturn ==
  ASSUME PthreadInv, NEW l \in Lwps, NEW from, At(l, from), Len(frames[l]) > 1, Return(l), Quiet
  PROVE  ShapeOK' /\ OrderOK' /\ FullOK'
<1>1. frames' = Popped(l) /\ proc' = proc /\ proc = "running"
  BY DEF Return, At
<1>2. /\ ShapeOK'
      /\ \A k \in Lwps : \/ Bottom(k)' = Bottom(k)
                         \/ Bottom(k) = "suspended" /\ Bottom(k)' = "loop"
      /\ \A L : Runs(L)' => Runs(L) \/ "loop" \in L
  BY <1>1, ReturnKeeps DEF PthreadInv
<1>3. NoFurther("suspended", "loop")
  BY DEF NoFurther, NoHandler, NotReady, Early, HasHandler
<1>4. \A k \in Lwps : Bottom(k)' = Bottom(k) \/ NoFurther(Bottom(k), Bottom(k)')
  BY <1>2, <1>3
<1>5. OrderOK'
  <2>1. start => proc' # "killed"
    BY <1>1
  <2> QED
    BY <1>4, <2>1, OrderKept DEF PthreadInv, Quiet
<1>6. Runs(Stopping)' => Runs(Stopping)
  <2>1. PICK S : S = Stopping
    OBVIOUS
  <2>2. Runs(S)' => Runs(S) \/ "loop" \in S
    BY <1>2
  <2>3. "loop" \notin Stopping
    BY DEF Stopping, StopLabels, LeaveLabels
  <2> QED
    BY <2>1, <2>2, <2>3 DEF Runs
<1>7. Ended' => Ended \/ age >= Runtime
  BY <1>1, <1>6 DEF Ended, Quiet
<1> QED
  BY <1>2, <1>5, <1>7, FullKept DEF PthreadInv, Quiet

\* A quiet step that leaves the stacks alone, or ends the process.
LEMMA QuietStay ==
  ASSUME PthreadInv, UNCHANGED frames, Quiet, start => proc' # "killed",
         proc' \in {proc, "failed"} \/ Ended
  PROVE  ShapeOK' /\ OrderOK' /\ FullOK'
<1>1. ShapeOK'
  BY DEF PthreadInv, ShapeOK
<1>2. \A k \in Lwps : Bottom(k)' = Bottom(k)
  BY DEF Bottom
<1>3. OrderOK'
  BY <1>2, OrderKept DEF PthreadInv, Quiet
<1>4. Runs(Stopping)' = Runs(Stopping)
  BY DEF Runs
<1>5. Ended' => Ended \/ age >= Runtime
  BY <1>4 DEF Ended, Quiet
<1> QED
  BY <1>1, <1>3, <1>5, FullKept DEF PthreadInv, Quiet

\* Which labels are which, for the steps that follow.
LEMMA StopMoves ==
  ASSUME NEW l \in Lwps, NEW from \in StopLabels, NEW to \in StopLabels
  PROVE  /\ from \in Stopping /\ to \in Labels /\ NoFurther(from, to)
         /\ \A c : from \in LabelsOf(l, c) => to \in LabelsOf(l, c)
<1>1. NoFurther(from, to)
  BY DEF NoFurther, NoHandler, NotReady, Early, HasHandler, StopLabels
<1>2. from \in Stopping /\ to \in Labels
  BY DEF Stopping, StopLabels, Labels
<1>3. \A c : from \in LabelsOf(l, c) => to \in LabelsOf(l, c)
  BY DEF LabelsOf, StopLabels, MainLabels, ThreadLabels, TickLabels, LeaveLabels
<1> QED
  BY <1>1, <1>2, <1>3

\* monitor_interrupt goes on, or into stop_handler.
LEMMA TickMoves ==
  ASSUME NEW l \in Lwps, NEW from \in TickLabels, NEW to \in TickLabels \cup {"sh_enter"}
  PROVE  /\ to \in Labels /\ NoFurther(from, to)
         /\ \A c : from \in LabelsOf(l, c) => to \in LabelsOf(l, c)
<1>1. NoFurther(from, to)
  BY DEF NoFurther, NoHandler, NotReady, Early, HasHandler, TickLabels
<1>2. to \in Labels
  BY DEF TickLabels, Labels
<1>3. \A c : from \in LabelsOf(l, c) => to \in LabelsOf(l, c)
  BY DEF LabelsOf, StopLabels, MainLabels, ThreadLabels, TickLabels, LeaveLabels
<1> QED
  BY <1>1, <1>2, <1>3

\* interrupt_thread goes on to its exit.
LEMMA LeaveMoves ==
  ASSUME NEW l \in Lwps, NEW from \in LeaveLabels \cup {"it_enter"}, NEW to \in LeaveLabels
  PROVE  /\ to \in Labels /\ NoFurther(from, to)
         /\ \A c : from \in LabelsOf(l, c) => to \in LabelsOf(l, c)
<1>1. NoFurther(from, to)
  BY DEF NoFurther, NoHandler, NotReady, Early, HasHandler, LeaveLabels
<1>2. to \in Labels
  BY DEF LeaveLabels, Labels
<1>3. \A c : from \in LabelsOf(l, c) => to \in LabelsOf(l, c)
  BY DEF LabelsOf, StopLabels, MainLabels, ThreadLabels, TickLabels, LeaveLabels
<1> QED
  BY <1>1, <1>2, <1>3

\* stop_handler keeps the invariant: a signal to the process is fatal only
\* while a thread that has stored its pid has no handler yet, before start.
LEMMA StopStepKeeps ==
  ASSUME PthreadInv, NEW l \in Lwps, StopStep(l)
  PROVE  PthreadInv'
<1> USE DEF PthreadInv
<1>1. ASSUME NEW from \in StopLabels, At(l, from) PROVE Ended
  BY <1>1, AtStopping DEF Stopping
<1>2. ASSUME NEW from \in StopLabels, NEW to \in StopLabels, At(l, from), Goto(l, to), Quiet
      PROVE  ShapeOK' /\ OrderOK' /\ FullOK'
  <2>1. Ended
    BY <1>1, <1>2
  <2> QED
    BY <1>2, <2>1, StopMoves, QuietGoto
<1>3. CASE StopEnter(l)
  <2>1. At(l, "sh_enter") /\ "sh_enter" \in StopLabels /\ "sh_visit" \in StopLabels
    BY <1>3 DEF StopEnter, StopLabels
  <2>2. UNCHANGED <<runVars, staticVars, sigVars, age, sigints>>
    BY <1>3 DEF StopEnter
  <2>3. Quiet
    BY <1>1, <2>1, <2>2 DEF Quiet, runVars, sigVars
  <2>4. TimeOK'
    BY <2>2 DEF TimeOK, runVars, staticVars
  <2>5. ASSUME proc' \in {proc, "ok"} PROVE PlainTypes'
    BY <2>2, <2>5 DEF PlainTypes, runVars, staticVars, sigVars
  <2>6. CASE Len(frames[l]) > 1 /\ Return(l)
    BY <2>1, <2>3, <2>4, <2>5, <2>6, QuietReturn DEF Return
  <2>7. CASE Ends("ok")
    <3>1. UNCHANGED frames /\ proc' = "ok" /\ Ended
      BY <1>1, <2>1, <2>7 DEF Ends
    <3> QED
      BY <2>3, <2>4, <2>5, <3>1, QuietStay
  <2>8. CASE Goto(l, "sh_visit")
    BY <1>2, <2>1, <2>3, <2>4, <2>5, <2>8 DEF Goto
  <2> QED
    BY <1>3, <2>6, <2>7, <2>8 DEF StopEnter
<1>4. CASE StopVisit(l)
  <2>1. At(l, "sh_visit") /\ Goto(l, "sh_timer") /\ "sh_visit" \in StopLabels /\ "sh_timer" \in StopLabels
    BY <1>4 DEF StopVisit, StopLabels
  <2>2. Quiet
    BY <1>1, <1>4, <2>1 DEF StopVisit, Quiet, runVars, sigVars
  <2>3. PlainTypes' /\ TimeOK'
    BY <1>4, <2>1 DEF StopVisit, Goto, PlainTypes, TimeOK, runVars, sigVars
  <2> QED
    BY <1>2, <2>1, <2>2, <2>3
<1>5. CASE StopStopTimer(l)
  <2>1. At(l, "sh_timer") /\ Goto(l, "sh_stop") /\ "sh_timer" \in StopLabels /\ "sh_stop" \in StopLabels
    BY <1>5 DEF StopStopTimer, StopLabels
  <2>2. disp' \in [Sigs -> {"dfl", "ign", "handler"}] /\ \A s \in Sigs : s # "ALRM" => disp'[s] = disp[s]
    BY <1>5 DEF StopStopTimer, PlainTypes
  <2>3. Quiet
    BY <1>1, <1>5, <2>1, <2>2 DEF StopStopTimer, Quiet, runVars, staticVars
  <2>4. PlainTypes' /\ TimeOK'
    BY <1>5, <2>1, <2>2 DEF StopStopTimer, Goto, PlainTypes, TimeOK, runVars, staticVars
  <2> QED
    BY <1>2, <2>1, <2>3, <2>4
<1>6. CASE StopFlag(l)
  <2>1. At(l, "sh_stop") /\ Goto(l, "sh_kill0") /\ "sh_stop" \in StopLabels /\ "sh_kill0" \in StopLabels
    BY <1>6 DEF StopFlag, StopLabels
  <2>2. Quiet
    BY <1>1, <1>6, <2>1 DEF StopFlag, Quiet, sigVars
  <2>3. PlainTypes' /\ TimeOK'
    BY <1>6, <2>1 DEF StopFlag, Goto, PlainTypes, TimeOK, staticVars, sigVars
  <2> QED
    BY <1>2, <2>1, <2>2, <2>3
<1>7. ASSUME NEW n \in Threads, StopSignal(l, n) PROVE PthreadInv'
  <2> DEFINE from == IF n = 0 THEN "sh_kill0" ELSE "sh_kill1"
             to == IF n = 0 THEN "sh_kill1" ELSE "sh_wait"
  <2>1. At(l, from) /\ from \in StopLabels /\ to \in StopLabels
    BY <1>7 DEF StopSignal, StopLabels
  <2>2. UNCHANGED <<runVars, staticVars, statsTimer, disp, armed, age, sigints>>
    BY <1>7 DEF StopSignal
  <2>3. Usr(n) \in Sigs /\ Usr(n) # "INT"
    BY DEF Usr, Sigs
  <2>4. pend' = pend \/ pend' = pend \cup {Usr(n)}
    BY <1>7 DEF StopSignal
  <2> HIDE DEF from, to
  <2>5. Quiet
    BY <1>1, <2>1, <2>2, <2>3, <2>4 DEF Quiet, runVars
  <2>6. TimeOK'
    BY <2>2 DEF TimeOK, runVars, staticVars
  <2>7. ASSUME proc' \in {proc, "killed"} PROVE PlainTypes'
    BY <2>2, <2>3, <2>4, <2>7 DEF PlainTypes, runVars, staticVars
  <2>8. CASE Goto(l, to)
    BY <1>2, <2>1, <2>5, <2>6, <2>7, <2>8 DEF Goto
  <2>9. CASE disp[Usr(n)] = "dfl" /\ Ends("killed")
    <3>1. UNCHANGED frames /\ proc' = "killed" /\ Ended
      BY <1>1, <2>1, <2>9 DEF Ends
    <3>2. ~start
      BY <2>9 DEF OrderOK, Threads
    <3> QED
      BY <2>5, <2>6, <2>7, <3>1, <3>2, QuietStay
  <2> QED
    BY <1>7, <2>8, <2>9 DEF StopSignal, to
<1>8. CASE StopWait(l)
  <2>1. At(l, "sh_wait") /\ "sh_wait" \in StopLabels
    BY <1>8 DEF StopWait, StopLabels
  <2>2. UNCHANGED <<runVars, visited, inInterrupt, now, torn, sigVars, age, sigints, frames>>
    BY <1>8 DEF StopWait, Ends
  <2>3. proc' \in {proc, "ok"} /\ printed' \in {printed, TRUE}
    BY <1>8 DEF StopWait, Ends
  <2>4. Quiet
    BY <1>1, <2>1, <2>2 DEF Quiet, runVars, sigVars
  <2>5. PlainTypes' /\ TimeOK'
    BY <2>2, <2>3 DEF PlainTypes, TimeOK, runVars, sigVars
  <2>6. Ended /\ proc' # "killed"
    BY <1>1, <2>1, <2>3 DEF At
  <2> QED
    BY <2>2, <2>4, <2>5, <2>6, QuietStay
<1> QED
  BY <1>3, <1>4, <1>5, <1>6, <1>7, <1>8 DEF StopStep

\* monitor_interrupt keeps the invariant: it stops the run only when a sample
\* of the past was taken after the time the run is to last.
LEMMA IntrStepKeeps ==
  ASSUME PthreadInv, NEW l \in Lwps, IntrStep(l)
  PROVE  PthreadInv'
<1> USE DEF PthreadInv
<1>1. visited \/ stop \/ torn => Ended
  BY DEF Ended
<1>2. ASSUME NEW from \in TickLabels, NEW to \in TickLabels \cup {"sh_enter"}, At(l, from),
             Goto(l, to), Quiet, to = "sh_enter" => age >= Runtime
      PROVE  ShapeOK' /\ OrderOK' /\ FullOK'
  <2>1. to \in Stopping => age >= Runtime
    BY <1>2 DEF Stopping, StopLabels, LeaveLabels, TickLabels
  <2> QED
    BY <1>2, <2>1, TickMoves, QuietGoto
<1>3. ASSUME NEW from \in TickLabels, At(l, from), Return(l), Quiet
      PROVE  ShapeOK' /\ OrderOK' /\ FullOK'
  <2>1. Len(frames[l]) > 1
    BY <1>3, AboveBase
  <2> QED
    BY <1>3, <2>1, QuietReturn
<1>4. CASE IntrEnter(l)
  <2>1. At(l, "mi_enter") /\ "mi_enter" \in TickLabels /\ "mi_gather" \in TickLabels
    BY <1>4 DEF IntrEnter, TickLabels
  <2>2. UNCHANGED <<runVars, visited, now, printed, torn, sigVars, age, sigints>>
    BY <1>4 DEF IntrEnter
  <2>3. Quiet
    BY <1>1, <2>2 DEF Quiet, runVars, sigVars
  <2>4. TimeOK' /\ PlainTypes'
    BY <1>4, <2>2 DEF IntrEnter, Goto, Return, TimeOK, PlainTypes, runVars, sigVars
  <2>5. CASE Return(l)
    BY <1>3, <2>1, <2>3, <2>4, <2>5
  <2>6. CASE Goto(l, "mi_gather")
    BY <1>2, <2>1, <2>3, <2>4, <2>6
  <2> QED
    BY <1>4, <2>5, <2>6 DEF IntrEnter
<1>5. CASE IntrGather(l)
  <2>1. At(l, "mi_gather") /\ Goto(l, "mi_store") /\ "mi_gather" \in TickLabels /\ "mi_store" \in TickLabels
    BY <1>5 DEF IntrGather, TickLabels
  <2>2. UNCHANGED <<runVars, visited, inInterrupt, printed, torn, sigVars, age, sigints>> /\ now' = age
    BY <1>5 DEF IntrGather
  <2>3. Quiet
    BY <1>1, <2>2 DEF Quiet, runVars, sigVars
  <2>4. TimeOK'
    BY <2>2 DEF TimeOK, PlainTypes, runVars, Unset
  <2>5. PlainTypes'
    BY <2>1, <2>2 DEF Goto, PlainTypes, runVars, sigVars
  <2> QED
    BY <1>2, <2>1, <2>3, <2>4, <2>5
<1>6. CASE IntrStore(l)
  <2>1. At(l, "mi_store") /\ Goto(l, "mi_timeout") /\ "mi_store" \in TickLabels /\ "mi_timeout" \in TickLabels
    BY <1>6 DEF IntrStore, TickLabels
  <2>2. UNCHANGED <<stop, start, ready, pid, sched, timeoutSet, staticVars, sigVars, age, sigints>>
    BY <1>6 DEF IntrStore
  <2>3. lastStats' \in {lastStats, now}
    BY <1>6 DEF IntrStore
  <2>4. Quiet
    BY <1>1, <2>2 DEF Quiet, staticVars, sigVars
  <2>5. TimeOK' /\ PlainTypes'
    BY <2>1, <2>2, <2>3 DEF Goto, TimeOK, PlainTypes, staticVars, sigVars
  <2> QED
    BY <1>2, <2>1, <2>4, <2>5
<1>7. CASE IntrTimeout(l)
  <2>1. At(l, "mi_timeout") /\ "mi_timeout" \in TickLabels
    BY <1>7 DEF IntrTimeout, TickLabels
  <2>2. UNCHANGED <<runVars, visited, now, printed, torn, sigVars, age, sigints>>
    BY <1>7 DEF IntrTimeout
  <2>3. Quiet
    BY <1>1, <2>2 DEF Quiet, runVars, sigVars
  <2>4. TimeOK' /\ PlainTypes'
    BY <1>7, <2>2 DEF IntrTimeout, Goto, Return, TimeOK, PlainTypes, runVars, sigVars
  <2>5. CASE TimedOut /\ Goto(l, "sh_enter")
    <3>1. age >= Runtime
      BY <2>5, PthreadConstants DEF TimedOut, TimeOK, PlainTypes, Unset
    <3> QED
      BY <1>2, <2>1, <2>3, <2>4, <2>5, <3>1
  <2>6. CASE Return(l)
    BY <1>3, <2>1, <2>3, <2>4, <2>6
  <2> QED
    BY <1>7, <2>5, <2>6 DEF IntrTimeout
<1> QED
  BY <1>4, <1>5, <1>6, <1>7 DEF IntrStep

\* interrupt_thread keeps the invariant: it goes past its entry only when stop
\* is set.
LEMMA HandlerStepKeeps ==
  ASSUME PthreadInv, NEW l \in Lwps, HandlerStep(l)
  PROVE  PthreadInv'
<1> USE DEF PthreadInv
<1>1. visited \/ stop \/ torn => Ended
  BY DEF Ended
<1>2. ASSUME NEW from \in LeaveLabels, At(l, from) PROVE Ended
  BY <1>2, AtStopping DEF Stopping
<1>3. ASSUME NEW from \in LeaveLabels \cup {"it_enter"}, NEW to \in LeaveLabels,
             At(l, from), Goto(l, to), Quiet, Ended
      PROVE  ShapeOK' /\ OrderOK' /\ FullOK'
  BY <1>3, LeaveMoves, QuietGoto
<1>4. CASE ThreadInterrupted(l)
  <2>1. At(l, "it_enter") /\ "it_sched" \in LeaveLabels
    BY <1>4 DEF ThreadInterrupted, LeaveLabels
  <2>2. UNCHANGED <<runVars, staticVars, sigVars, age, sigints>> /\ proc' = proc
    BY <1>4 DEF ThreadInterrupted, Goto, Return
  <2>3. Quiet
    BY <1>1, <2>2 DEF Quiet, runVars, staticVars, sigVars
  <2>4. TimeOK' /\ PlainTypes'
    BY <2>2 DEF TimeOK, PlainTypes, runVars, staticVars, sigVars
  <2>5. CASE stop /\ Goto(l, "it_sched")
    BY <1>1, <1>3, <2>1, <2>3, <2>4, <2>5
  <2>6. CASE Return(l)
    <3>1. Len(frames[l]) > 1
      BY <2>1, AboveBase
    <3> QED
      BY <2>1, <2>3, <2>4, <2>6, <3>1, QuietReturn
  <2> QED
    BY <1>4, <2>5, <2>6 DEF ThreadInterrupted
<1>5. CASE ReadSched(l)
  <2>1. At(l, "it_sched") /\ Goto(l, "it_cleanup") /\ "it_sched" \in LeaveLabels /\ "it_cleanup" \in LeaveLabels
    BY <1>5 DEF ReadSched, LeaveLabels
  <2>2. UNCHANGED <<stop, start, ready, pid, lastStats, timeoutSet, staticVars, sigVars, age, sigints>>
    BY <1>5 DEF ReadSched
  <2>3. sched' \in [Threads -> BOOLEAN]
    BY <1>5 DEF ReadSched, PlainTypes, Signalled, Threads
  <2>4. Quiet
    BY <1>1, <2>2 DEF Quiet, staticVars, sigVars
  <2>5. TimeOK' /\ PlainTypes'
    BY <2>1, <2>2, <2>3 DEF Goto, TimeOK, PlainTypes, staticVars, sigVars
  <2> QED
    BY <1>2, <1>3, <2>1, <2>4, <2>5
<1>6. CASE CommCleanup(l)
  <2>1. At(l, "it_cleanup") /\ Goto(l, "it_exit") /\ "it_exit" \in LeaveLabels /\ "it_cleanup" \in LeaveLabels
    BY <1>6 DEF CommCleanup, LeaveLabels
  <2>2. Quiet
    BY <1>2, <1>6, <2>1 DEF CommCleanup, Quiet, runVars, sigVars
  <2>3. TimeOK' /\ PlainTypes'
    BY <1>6, <2>1 DEF CommCleanup, Goto, TimeOK, PlainTypes, runVars, sigVars
  <2> QED
    BY <1>2, <1>3, <2>1, <2>2, <2>3
<1>7. CASE ThreadExit(l)
  <2>1. At(l, "it_exit") /\ "it_exit" \in LeaveLabels /\ UNCHANGED frames /\ proc' = "ok"
    BY <1>7 DEF ThreadExit, LeaveLabels, Ends
  <2>2. UNCHANGED <<runVars, staticVars, sigVars, age, sigints>>
    BY <1>7 DEF ThreadExit
  <2>3. Quiet
    BY <1>1, <2>2 DEF Quiet, runVars, staticVars, sigVars
  <2>4. TimeOK' /\ PlainTypes'
    BY <2>1, <2>2 DEF TimeOK, PlainTypes, runVars, staticVars, sigVars
  <2> QED
    BY <1>2, <2>1, <2>3, <2>4, QuietStay
<1> QED
  BY <1>4, <1>5, <1>6, <1>7 DEF HandlerStep

\* The deliveries and the environment keep the invariant.
LEMMA EnvironmentKeeps ==
  ASSUME PthreadInv,
         \/ \E s \in Sigs, l \in Lwps : Deliver(s, l)
         \/ Tick \/ Advance \/ SendSigint \/ Over \/ UNCHANGED vars
  PROVE  PthreadInv'
<1> USE DEF PthreadInv
<1>1. visited \/ stop \/ torn => Ended
  BY DEF Ended
<1>2. ASSUME NEW s \in Sigs, NEW l \in Lwps, Deliver(s, l) PROVE PthreadInv'
  <2>1. /\ UNCHANGED <<runVars, proc, staticVars, statsTimer, disp, armed, age, sigints>>
        /\ s \in pend /\ pend' = pend \ {s} /\ proc = "running"
    BY <1>2 DEF Deliver
  <2>2. TimeOK' /\ PlainTypes'
    BY <2>1 DEF TimeOK, PlainTypes, runVars, staticVars
  <2>3. /\ ShapeOK'
        /\ \A k \in Lwps : Bottom(k)' = Bottom(k)
        /\ \A L : Runs(L)' => Runs(L) \/ Entry(s) \in L
    BY <1>2, DeliverKeeps
  <2>4. OrderOK'
    BY <2>1, <2>3, OrderKept DEF runVars
  <2>5. Runs(Stopping)' => Runs(Stopping) \/ s = "INT"
    <3>1. PICK S : S = Stopping
      OBVIOUS
    <3>2. Runs(S)' => Runs(S) \/ Entry(s) \in S
      BY <2>3
    <3>3. Entry(s) \in Stopping => s = "INT"
      BY DEF Entry, Sigs, Stopping, StopLabels, LeaveLabels
    <3> QED
      BY <3>1, <3>2, <3>3 DEF Runs
  <2>6. FullOK'
    <3>1. CASE s = "INT"
      BY <2>1, <3>1 DEF FullOK
    <3>2. CASE s # "INT"
      <4>1. Ended' => Ended
        BY <2>1, <2>5, <3>2 DEF Ended, runVars, staticVars
      <4> QED
        BY <2>1, <4>1, FullKept
    <3> QED
      BY <3>1, <3>2
  <2> QED
    BY <2>2, <2>3, <2>4, <2>6
<1>3. CASE Tick
  <2>1. /\ UNCHANGED <<runVars, proc, frames, staticVars, statsTimer, disp, armed, age, sigints>>
        /\ pend' = pend \cup {"ALRM"} /\ proc = "running"
    BY <1>3 DEF Tick
  <2>2. Quiet
    BY <1>1, <2>1 DEF Quiet, runVars, staticVars
  <2>3. TimeOK' /\ PlainTypes'
    BY <2>1 DEF TimeOK, PlainTypes, runVars, staticVars, Sigs
  <2> QED
    BY <2>1, <2>2, <2>3, QuietStay
<1>4. CASE Advance
  <2>1. /\ UNCHANGED <<runVars, proc, frames, staticVars, sigVars, sigints>>
        /\ proc = "running" /\ age # Unset /\ age < Runtime /\ age' = age + 1
    BY <1>4 DEF Advance
  <2>2. TimeOK' /\ PlainTypes'
    BY <2>1, PthreadConstants DEF TimeOK, PlainTypes, runVars, staticVars, sigVars, Unset
  <2>3. ShapeOK' /\ (\A k \in Lwps : Bottom(k)' = Bottom(k)) /\ Ended' = Ended
    BY <2>1 DEF ShapeOK, Bottom, Ended, Runs, runVars, staticVars
  <2>4. Bottom("main") \notin Early
    BY <2>1 DEF OrderOK
  <2>5. OrderOK'
    BY <2>1, <2>3, <2>4, OrderKept DEF runVars, sigVars
  <2>6. FullOK'
    BY <2>1, <2>3, PthreadConstants DEF FullOK, PlainTypes, sigVars, Unset
  <2> QED
    BY <2>2, <2>3, <2>5, <2>6
<1>5. CASE SendSigint
  <2>1. /\ UNCHANGED <<runVars, frames, staticVars, statsTimer, disp, armed, age>>
        /\ sigints < MaxSigint /\ sigints' = sigints + 1 /\ proc = "running"
        /\ pend' = pend \/ pend' = pend \cup {"INT"}
        /\ proc' = proc \/ (proc' = "killed" /\ disp["INT"] = "dfl")
    BY <1>5 DEF SendSigint
  <2>2. TimeOK' /\ PlainTypes'
    <3>1. sigints' \in 0..MaxSigint
      BY <2>1, PthreadConstants DEF PlainTypes
    <3>2. pend' \subseteq Sigs
      BY <2>1 DEF PlainTypes, Sigs
    <3>3. proc' \in {"running", "ok", "failed", "killed", "faulted"}
      BY <2>1
    <3>4. TimeOK'
      BY <2>1 DEF TimeOK, runVars, staticVars
    <3> QED
      BY <2>1, <3>1, <3>2, <3>3, <3>4 DEF PlainTypes, runVars, staticVars
  <2>3. ShapeOK' /\ \A k \in Lwps : Bottom(k)' = Bottom(k)
    BY <2>1 DEF ShapeOK, Bottom
  <2>4. start => proc' # "killed"
    BY <2>1 DEF OrderOK
  <2>5. OrderOK'
    BY <2>1, <2>3, <2>4, OrderKept DEF runVars
  <2>6. FullOK'
    BY <2>1 DEF FullOK, PlainTypes
  <2> QED
    BY <2>2, <2>3, <2>5, <2>6
<1>6. CASE Over \/ UNCHANGED vars
  <2>1. UNCHANGED vars
    BY <1>6 DEF Over
  <2> QED
    BY <2>1 DEF vars, runVars, staticVars, sigVars, PlainTypes, ShapeOK, OrderOK, FullOK,
                TimeOK, Ended, Runs, Bottom
<1> QED
  BY <1>2, <1>3, <1>4, <1>5, <1>6

\* A thread's own code goes on to a place of its own.
LEMMA BaseGoto ==
  ASSUME ShapeOK, NEW l \in Lwps, NEW from \in MainLabels \cup ThreadLabels, NEW to \in Labels,
         At(l, from), Goto(l, to), to \notin Stopping,
         \A c : from \in LabelsOf(l, c) => to \in LabelsOf(l, c)
  PROVE  /\ ShapeOK' /\ proc' = proc /\ proc = "running"
         /\ Bottom(l) = from /\ Bottom(l)' = to
         /\ \A k \in Lwps : k # l => Bottom(k)' = Bottom(k)
         /\ Runs(Stopping)' => Runs(Stopping)
<1>1. frames' = Moved(l, to) /\ proc' = proc /\ proc = "running"
  BY DEF Goto, At
<1>2. Len(frames[l]) = 1 /\ Bottom(l) = from
  BY AtBottom
<1>3. /\ ShapeOK'
      /\ \A k \in Lwps : \/ Bottom(k)' = Bottom(k)
                         \/ k = l /\ Bottom(k) = from /\ Bottom(k)' = to
      /\ \A L : Runs(L)' => Runs(L) \/ to \in L
      /\ Len(frames[l]) = 1 => Bottom(l)' = to
  BY <1>1, GotoKeeps
<1>4. Runs(Stopping)' => Runs(Stopping)
  <2>1. PICK S : S = Stopping
    OBVIOUS
  <2>2. Runs(S)' => Runs(S) \/ to \in S
    BY <1>3
  <2> QED
    BY <2>1, <2>2 DEF Runs
<1> QED
  BY <1>1, <1>2, <1>3, <1>4

\* main goes from one place in do_monitor_work to another.
LEMMA MainMoves ==
  ASSUME NEW from \in MainLabels, NEW to \in MainLabels
  PROVE  /\ "main" \in Lwps /\ from \in MainLabels \cup ThreadLabels
         /\ to \in Labels /\ to \notin Stopping
         /\ \A c : from \in LabelsOf("main", c) => to \in LabelsOf("main", c)
<1>1. to \in Labels /\ to \notin Stopping
  BY DEF MainLabels, Labels, Stopping, StopLabels, LeaveLabels
<1>2. \A c : from \in LabelsOf("main", c) => to \in LabelsOf("main", c)
  BY DEF LabelsOf, StopLabels, MainLabels, TickLabels, LeaveLabels
<1> QED
  BY <1>1, <1>2 DEF Lwps

\* A player goes from one place in do_thread_work to another.
LEMMA ThreadMoves ==
  ASSUME NEW n \in Threads, NEW from \in ThreadLabels, NEW to \in ThreadLabels
  PROVE  /\ Lwp(n) \in Lwps /\ Lwp(n) # "main" /\ from \in MainLabels \cup ThreadLabels
         /\ to \in Labels /\ to \notin Stopping
         /\ \A c : from \in LabelsOf(Lwp(n), c) => to \in LabelsOf(Lwp(n), c)
<1>1. to \in Labels /\ to \notin Stopping
  BY DEF ThreadLabels, Labels, Stopping, StopLabels, LeaveLabels
<1>2. Lwp(n) \in Lwps /\ Lwp(n) # "main"
  BY DEF Lwp, Lwps
<1>3. \A c : from \in LabelsOf(Lwp(n), c) => to \in LabelsOf(Lwp(n), c)
  BY <1>2 DEF LabelsOf, StopLabels, ThreadLabels, TickLabels, LeaveLabels
<1> QED
  BY <1>1, <1>2, <1>3

\* pthread_create keeps the invariant: a new thread has not installed anything.
LEMMA CreateStepKeeps ==
  ASSUME PthreadInv, NEW n \in Threads, Create(n)
  PROVE  PthreadInv'
<1> USE DEF PthreadInv
<1> DEFINE from == IF n = 0 THEN "create0" ELSE "create1"
           to == IF n = 0 THEN "create1" ELSE "stop_false"
<1>1. At("main", from) /\ from \in {"create0", "create1"} /\ to \in {"create1", "stop_false"}
  BY DEF Create
<1>2. UNCHANGED <<runVars, staticVars, sigVars, age, sigints>>
  BY DEF Create
<1>3. visited \/ stop \/ torn => Ended
  BY DEF Ended
<1>4. Quiet
  BY <1>2, <1>3 DEF Quiet, runVars, staticVars, sigVars
<1>5. TimeOK'
  BY <1>2 DEF TimeOK, runVars, staticVars
<1>6. ASSUME proc' \in {proc, "failed"} PROVE PlainTypes'
  BY <1>2, <1>6 DEF PlainTypes, runVars, staticVars, sigVars
<1>7. NoFurther(from, to) /\ from \in MainLabels /\ to \in MainLabels
  BY <1>1 DEF NoFurther, NoHandler, NotReady, Early, HasHandler, MainLabels
<1>8. \/ /\ frames' = [Moved("main", to) EXCEPT ![Lwp(n)] = <<[ctx |-> "base", at |-> "setpid"]>>]
         /\ UNCHANGED proc
      \/ Ends("failed")
      \/ Goto("main", to)
  BY DEF Create
<1> HIDE DEF from, to
<1>9. CASE /\ frames' = [Moved("main", to) EXCEPT ![Lwp(n)] = <<[ctx |-> "base", at |-> "setpid"]>>]
           /\ UNCHANGED proc
  <2>1. /\ ShapeOK'
        /\ \/ Bottom("main")' = Bottom("main")
           \/ Bottom("main") = from /\ Bottom("main")' = to
        /\ \A k \in {"ping", "pong"} : Bottom(k)' = Bottom(k) \/ Bottom(k)' = "setpid"
        /\ \A L : Runs(L)' => Runs(L) \/ to \in L \/ "setpid" \in L
    BY <1>1, <1>9, CreateKeeps
  <2>2. \A b : b \notin MainLabels => NoFurther(b, "setpid")
    BY DEF NoFurther, NoHandler, NotReady, Early, HasHandler, MainLabels
  <2>3. \A k \in {"ping", "pong"} : Bottom(k) \notin MainLabels
    <3> SUFFICES ASSUME NEW k \in {"ping", "pong"} PROVE Bottom(k) \notin MainLabels
      OBVIOUS
    <3>1. k \in Lwps /\ k # "main" /\ frames[k] \in Seq(Frame)
      BY DEF Lwps, ShapeOK
    <3>2. CASE frames[k] = <<>>
      BY <3>2 DEF Bottom, MainLabels
    <3>3. CASE frames[k] # <<>>
      <4>1. 1 \in DOMAIN frames[k]
        BY <3>1, <3>3
      <4>2. frames[k][1].at \in LabelsOf(k, "base")
        BY <3>1, <4>1 DEF ShapeOK
      <4> QED
        BY <3>1, <3>3, <4>2 DEF Bottom, LabelsOf, ThreadLabels, MainLabels
    <3> QED
      BY <3>2, <3>3
  <2>4. \A k \in Lwps : Bottom(k)' = Bottom(k) \/ NoFurther(Bottom(k), Bottom(k)')
    BY <1>7, <2>1, <2>2, <2>3 DEF Lwps
  <2>5. start => proc' # "killed"
    BY <1>9 DEF OrderOK
  <2>6. OrderOK'
    BY <1>4, <2>4, <2>5, OrderKept DEF Quiet
  <2>7. Runs(Stopping)' => Runs(Stopping)
    <3>1. PICK S : S = Stopping
      OBVIOUS
    <3>2. Runs(S)' => Runs(S) \/ to \in S \/ "setpid" \in S
      BY <2>1
    <3>3. to \notin Stopping /\ "setpid" \notin Stopping
      BY <1>1 DEF Stopping, StopLabels, LeaveLabels
    <3> QED
      BY <3>1, <3>2, <3>3 DEF Runs
  <2>8. Ended' => Ended
    BY <1>4, <1>9, <2>7 DEF Ended, Quiet
  <2>9. FullOK'
    BY <1>4, <2>8, FullKept DEF Quiet
  <2> QED
    BY <1>5, <1>6, <1>9, <2>1, <2>6, <2>9
<1>10. CASE Ends("failed")
  BY <1>4, <1>5, <1>6, <1>10, QuietStay DEF Ends
<1>11. CASE Goto("main", to)
  <2>1. proc' = proc
    BY <1>11 DEF Goto
  <2> QED
    BY <1>1, <1>4, <1>5, <1>6, <1>7, <1>11, <2>1, MainMoves, QuietGoto
<1> QED
  BY <1>8, <1>9, <1>10, <1>11

\* A step that goes on in main's own code leaves the players where they are.
LEMMA MainGoto ==
  ASSUME ShapeOK, NEW from \in MainLabels, NEW to \in MainLabels, At("main", from), Goto("main", to)
  PROVE  /\ ShapeOK' /\ proc' = proc /\ proc = "running"
         /\ Bottom("main") = from /\ Bottom("main")' = to
         /\ \A n \in Threads : Bottom(Lwp(n))' = Bottom(Lwp(n))
         /\ Runs(Stopping)' => Runs(Stopping)
<1>1. \A n \in Threads : Lwp(n) \in Lwps /\ Lwp(n) # "main"
  BY DEF Lwp, Lwps
<1>2. /\ ShapeOK' /\ proc' = proc /\ proc = "running"
      /\ Bottom("main") = from /\ Bottom("main")' = to
      /\ \A k \in Lwps : k # "main" => Bottom(k)' = Bottom(k)
      /\ Runs(Stopping)' => Runs(Stopping)
  BY MainMoves, BaseGoto
<1> QED
  BY <1>1, <1>2

\* do_monitor_work keeps the invariant: each of its lines has what the lines
\* above it have set up.
LEMMA MainStepKeeps ==
  ASSUME PthreadInv, MainStep
  PROVE  PthreadInv'
<1> USE DEF PthreadInv
<1>1. visited \/ stop \/ torn => Ended
  BY DEF Ended
<1>2. ASSUME NEW n \in Threads, Create(n) PROVE PthreadInv'
  BY <1>2, CreateStepKeeps
<1>3. CASE ResetStop
  <2>1. At("main", "stop_false") /\ Goto("main", "int_sig")
    BY <1>3 DEF ResetStop
  <2>2. Quiet
    BY <1>1, <1>3 DEF ResetStop, Quiet, staticVars, sigVars
  <2>3. TimeOK' /\ PlainTypes'
    BY <1>3 DEF ResetStop, Goto, TimeOK, PlainTypes, staticVars, sigVars
  <2>4. /\ "stop_false" \in MainLabels /\ "int_sig" \in MainLabels
        /\ NoFurther("stop_false", "int_sig")
    BY DEF MainLabels, NoFurther, NoHandler, NotReady, Early, HasHandler
  <2> QED
    BY <2>1, <2>2, <2>3, <2>4, MainMoves, QuietGoto
<1>4. CASE SetupStopHandler
  <2>1. At("main", "int_sig") /\ Goto("main", "ready_wait")
    BY <1>4 DEF SetupStopHandler
  <2>2. UNCHANGED <<runVars, staticVars, statsTimer, pend, armed, age, sigints>>
    BY <1>4 DEF SetupStopHandler
  <2>3. "int_sig" \in MainLabels /\ "ready_wait" \in MainLabels
    BY DEF MainLabels
  <2>4. /\ ShapeOK' /\ proc' = proc /\ proc = "running"
        /\ Bottom("main") = "int_sig" /\ Bottom("main")' = "ready_wait"
        /\ \A n \in Threads : Bottom(Lwp(n))' = Bottom(Lwp(n))
        /\ Runs(Stopping)' => Runs(Stopping)
    BY <2>1, <2>3, MainGoto
  <2>5. /\ disp' \in [Sigs -> {"dfl", "ign", "handler"}] /\ disp'["INT"] = "handler"
        /\ \A n \in Threads : disp'[Usr(n)] = disp[Usr(n)]
    BY <1>4 DEF SetupStopHandler, PlainTypes, Sigs, Usr
  <2>6. TimeOK' /\ PlainTypes'
    BY <2>2, <2>4, <2>5 DEF TimeOK, PlainTypes, runVars, staticVars
  <2>7. OrderOK'
    BY <2>2, <2>4, <2>5 DEF OrderOK, NoHandler, NotReady, Early, runVars
  <2>8. Ended' => Ended
    BY <2>2, <2>4 DEF Ended, runVars, staticVars
  <2> QED
    BY <2>2, <2>4, <2>6, <2>7, <2>8, FullKept
<1>5. CASE WaitReady
  <2>1. At("main", "ready_wait") /\ UNCHANGED <<runVars, staticVars, sigVars, age, sigints>>
    BY <1>5 DEF WaitReady
  <2>2. TimeOK' /\ PlainTypes'
    BY <1>5, <2>1 DEF WaitReady, Goto, TimeOK, PlainTypes, runVars, staticVars, sigVars
  <2>3. CASE ready[0] /\ ready[1] /\ Goto("main", "timer")
    <3>1. "ready_wait" \in MainLabels /\ "timer" \in MainLabels
      BY DEF MainLabels
    <3>2. /\ ShapeOK' /\ proc' = proc /\ proc = "running"
          /\ Bottom("main") = "ready_wait" /\ Bottom("main")' = "timer"
          /\ \A n \in Threads : Bottom(Lwp(n))' = Bottom(Lwp(n))
          /\ Runs(Stopping)' => Runs(Stopping)
      BY <2>1, <2>3, <3>1, MainGoto
    <3>3. OrderOK'
      BY <2>1, <2>3, <3>2 DEF OrderOK, NoHandler, NotReady, Early, runVars, sigVars
    <3>4. Ended' => Ended
      BY <2>1, <3>2 DEF Ended, runVars, staticVars
    <3>5. FullOK'
      BY <2>1, <3>4, FullKept DEF sigVars
    <3> QED
      BY <2>2, <3>2, <3>3, <3>5
  <2>4. CASE UNCHANGED <<frames, proc>>
    <3>1. Quiet
      BY <1>1, <2>1 DEF Quiet, runVars, staticVars, sigVars
    <3>2. start => proc' # "killed"
      BY <2>4 DEF OrderOK
    <3> QED
      BY <2>2, <2>4, <3>1, <3>2, QuietStay
  <2> QED
    BY <1>5, <2>3, <2>4 DEF WaitReady
<1>6. CASE SetupMonitorTimer
  <2>1. At("main", "timer") /\ Goto("main", "start")
    BY <1>6 DEF SetupMonitorTimer
  <2>2. UNCHANGED <<runVars, staticVars, statsTimer, pend, age, sigints>>
    BY <1>6 DEF SetupMonitorTimer
  <2>3. /\ disp' \in [Sigs -> {"dfl", "ign", "handler"}] /\ armed' \in BOOLEAN
        /\ \A s \in Sigs : s # "ALRM" => disp'[s] = disp[s]
    BY <1>6 DEF SetupMonitorTimer, PlainTypes, Sigs
  <2>4. Quiet
    BY <1>1, <2>2, <2>3 DEF Quiet, runVars, staticVars
  <2>5. TimeOK' /\ PlainTypes'
    BY <2>1, <2>2, <2>3 DEF Goto, TimeOK, PlainTypes, runVars, staticVars
  <2>6. "timer" \in MainLabels /\ "start" \in MainLabels /\ NoFurther("timer", "start")
    BY DEF MainLabels, NoFurther, NoHandler, NotReady, Early, HasHandler
  <2> QED
    BY <2>1, <2>4, <2>5, <2>6, MainMoves, QuietGoto
<1>7. CASE StartThreads
  <2>1. At("main", "start") /\ Goto("main", "times") /\ start' = TRUE
    BY <1>7 DEF StartThreads
  <2>2. UNCHANGED <<stop, ready, pid, sched, lastStats, timeoutSet, staticVars, sigVars, age, sigints>>
    BY <1>7 DEF StartThreads
  <2>3. "start" \in MainLabels /\ "times" \in MainLabels
    BY DEF MainLabels
  <2>4. /\ ShapeOK' /\ proc' = proc /\ proc = "running"
        /\ Bottom("main") = "start" /\ Bottom("main")' = "times"
        /\ \A n \in Threads : Bottom(Lwp(n))' = Bottom(Lwp(n))
        /\ Runs(Stopping)' => Runs(Stopping)
    BY <2>1, <2>3, MainGoto
  <2>5. TimeOK' /\ PlainTypes'
    BY <2>1, <2>2, <2>4 DEF TimeOK, PlainTypes, staticVars, sigVars
  <2>6. ready[0] /\ ready[1] /\ disp["INT"] = "handler"
    BY <2>4 DEF OrderOK, NoHandler, NotReady
  <2>7. OrderOK'
    BY <2>2, <2>4, <2>6 DEF OrderOK, NoHandler, NotReady, Early, sigVars
  <2>8. Ended' => Ended
    BY <2>2, <2>4 DEF Ended, staticVars
  <2>9. FullOK'
    BY <2>2, <2>8, FullKept DEF sigVars
  <2> QED
    BY <2>4, <2>5, <2>7, <2>9
<1>8. CASE ReadTimes
  <2>1. /\ At("main", "times") /\ Goto("main", "loop")
        /\ age' = 0 /\ lastStats' = 0 /\ timeoutSet' = TRUE
    BY <1>8 DEF ReadTimes
  <2>2. UNCHANGED <<stop, start, ready, pid, sched, staticVars, sigVars, sigints>>
    BY <1>8 DEF ReadTimes
  <2>3. "times" \in MainLabels /\ "loop" \in MainLabels
    BY DEF MainLabels
  <2>4. /\ ShapeOK' /\ proc' = proc /\ proc = "running"
        /\ Bottom("main") = "times" /\ Bottom("main")' = "loop"
        /\ \A n \in Threads : Bottom(Lwp(n))' = Bottom(Lwp(n))
        /\ Runs(Stopping)' => Runs(Stopping)
    BY <2>1, <2>3, MainGoto
  <2>5. age = Unset
    BY <2>4 DEF OrderOK, Early
  <2>6. TimeOK'
    BY <2>1, <2>2, <2>5 DEF TimeOK, PlainTypes, Unset, staticVars
  <2>7. PlainTypes'
    <3>1. 0 \in Unset..Runtime
      BY PthreadConstants DEF Unset
    <3> QED
      BY <2>1, <2>2, <2>4, <3>1 DEF PlainTypes, staticVars, sigVars
  <2>8. OrderOK'
    BY <2>2, <2>4 DEF OrderOK, NoHandler, NotReady, Early, sigVars
  <2>9. Ended' => Ended
    BY <2>2, <2>4 DEF Ended, staticVars
  <2>10. FullOK'
    BY <2>2, <2>5, <2>9, PthreadConstants DEF FullOK, Unset, sigVars
  <2> QED
    BY <2>4, <2>6, <2>7, <2>8, <2>10
<1>9. CASE TestStop
  <2>1. At("main", "loop") /\ UNCHANGED <<runVars, staticVars, sigVars, age, sigints>>
    BY <1>9 DEF TestStop
  <2>2. Quiet
    BY <1>1, <2>1 DEF Quiet, runVars, staticVars, sigVars
  <2>3. TimeOK' /\ PlainTypes'
    BY <1>9, <2>1 DEF TestStop, Goto, TimeOK, PlainTypes, runVars, staticVars, sigVars
  <2>4. CASE stop /\ Goto("main", "sh_enter")
    <3>1. NoFurther("loop", "sh_enter") /\ "sh_enter" \in Labels /\ "main" \in Lwps
      BY DEF NoFurther, NoHandler, NotReady, Early, HasHandler, Labels, Lwps
    <3>2. \A c : "loop" \in LabelsOf("main", c) => "sh_enter" \in LabelsOf("main", c)
      BY DEF LabelsOf, StopLabels, MainLabels, TickLabels, LeaveLabels
    <3> QED
      BY <1>1, <2>1, <2>2, <2>3, <2>4, <3>1, <3>2, QuietGoto
  <2>5. CASE Goto("main", "suspend")
    <3>1. "loop" \in MainLabels /\ "suspend" \in MainLabels /\ NoFurther("loop", "suspend")
      BY DEF MainLabels, NoFurther, NoHandler, NotReady, Early, HasHandler
    <3> QED
      BY <2>1, <2>2, <2>3, <2>5, <3>1, MainMoves, QuietGoto
  <2> QED
    BY <1>9, <2>4, <2>5 DEF TestStop
<1>10. CASE SigSuspend
  <2>1. At("main", "suspend") /\ Goto("main", "suspended")
    BY <1>10 DEF SigSuspend
  <2>2. UNCHANGED <<runVars, staticVars, sigVars, age, sigints>>
    BY <1>10 DEF SigSuspend
  <2>3. Quiet
    BY <1>1, <2>2 DEF Quiet, runVars, staticVars, sigVars
  <2>4. TimeOK' /\ PlainTypes'
    BY <2>1, <2>2 DEF Goto, TimeOK, PlainTypes, runVars, staticVars, sigVars
  <2>5. "suspend" \in MainLabels /\ "suspended" \in MainLabels /\ NoFurther("suspend", "suspended")
    BY DEF MainLabels, NoFurther, NoHandler, NotReady, Early, HasHandler
  <2> QED
    BY <2>1, <2>3, <2>4, <2>5, MainMoves, QuietGoto
<1> QED
  BY <1>2, <1>3, <1>4, <1>5, <1>6, <1>7, <1>8, <1>9, <1>10 DEF MainStep

\* A step that goes on in a player's own code leaves the other threads alone.
LEMMA ThreadGoto ==
  ASSUME ShapeOK, NEW n \in Threads, NEW from \in ThreadLabels, NEW to \in ThreadLabels,
         At(Lwp(n), from), Goto(Lwp(n), to)
  PROVE  /\ ShapeOK' /\ proc' = proc /\ proc = "running"
         /\ Bottom(Lwp(n)) = from /\ Bottom(Lwp(n))' = to
         /\ Bottom("main")' = Bottom("main")
         /\ \A m \in Threads : m # n => Bottom(Lwp(m))' = Bottom(Lwp(m))
         /\ Runs(Stopping)' => Runs(Stopping)
<1>1. \A m \in Threads : Lwp(m) \in Lwps /\ (m # n => Lwp(m) # Lwp(n))
  BY DEF Lwp, Lwps, Threads
<1>2. "main" \in Lwps /\ Lwp(n) # "main" /\ Lwp(n) \in Lwps
  BY DEF Lwp, Lwps
<1>3. /\ ShapeOK' /\ proc' = proc /\ proc = "running"
      /\ Bottom(Lwp(n)) = from /\ Bottom(Lwp(n))' = to
      /\ \A k \in Lwps : k # Lwp(n) => Bottom(k)' = Bottom(k)
      /\ Runs(Stopping)' => Runs(Stopping)
  BY <1>2, ThreadMoves, BaseGoto
<1> QED
  BY <1>1, <1>2, <1>3

\* do_thread_work keeps the invariant: a thread that is ready has its handler.
LEMMA ThreadStepKeeps ==
  ASSUME PthreadInv, NEW n \in Threads, ThreadStep(n)
  PROVE  PthreadInv'
<1> USE DEF PthreadInv
<1>1. visited \/ stop \/ torn => Ended
  BY DEF Ended
<1>2. Lwp(n) \in Lwps /\ Usr(n) \in Sigs
  BY DEF Lwp, Lwps, Usr, Sigs
<1>3. CASE ThreadSetPid(n)
  <2>1. At(Lwp(n), "setpid") /\ Goto(Lwp(n), "sigs")
    BY <1>3 DEF ThreadSetPid
  <2>2. UNCHANGED <<stop, start, ready, sched, lastStats, timeoutSet, staticVars, sigVars, age, sigints>>
    BY <1>3 DEF ThreadSetPid
  <2>3. pid' \in [Threads -> {NoPid, OwnPid, DeadPid}]
    BY <1>3 DEF ThreadSetPid, PlainTypes
  <2>4. Quiet
    BY <1>1, <2>2 DEF Quiet, staticVars, sigVars
  <2>5. TimeOK' /\ PlainTypes'
    BY <2>1, <2>2, <2>3 DEF Goto, TimeOK, PlainTypes, staticVars, sigVars
  <2>6. "setpid" \in ThreadLabels /\ "sigs" \in ThreadLabels /\ NoFurther("setpid", "sigs")
    BY DEF ThreadLabels, NoFurther, NoHandler, NotReady, Early, HasHandler
  <2> QED
    BY <2>1, <2>4, <2>5, <2>6, ThreadMoves, QuietGoto
<1>4. CASE ThreadSignals(n)
  <2>1. At(Lwp(n), "sigs") /\ Goto(Lwp(n), "ready")
    BY <1>4 DEF ThreadSignals
  <2>2. UNCHANGED <<runVars, staticVars, statsTimer, pend, armed, age, sigints>>
    BY <1>4 DEF ThreadSignals
  <2>3. /\ disp' \in [Sigs -> {"dfl", "ign", "handler"}] /\ disp'["INT"] = disp["INT"]
        /\ disp'[Usr(n)] = "handler"
        /\ \A m \in Threads : m # n => disp'[Usr(m)] = disp[Usr(m)]
    BY <1>4, <1>2 DEF ThreadSignals, PlainTypes, Sigs, Usr, Threads
  <2>4. "sigs" \in ThreadLabels /\ "ready" \in ThreadLabels
    BY DEF ThreadLabels
  <2>5. /\ ShapeOK' /\ proc' = proc /\ proc = "running"
        /\ Bottom("main")' = Bottom("main")
        /\ \A m \in Threads : m # n => Bottom(Lwp(m))' = Bottom(Lwp(m))
        /\ Runs(Stopping)' => Runs(Stopping)
    BY <2>1, <2>4, ThreadGoto
  <2>6. TimeOK' /\ PlainTypes'
    BY <2>2, <2>3, <2>5 DEF TimeOK, PlainTypes, runVars, staticVars
  <2>7. OrderOK'
    BY <2>2, <2>3, <2>5 DEF OrderOK, runVars
  <2>8. Ended' => Ended
    BY <2>2, <2>5 DEF Ended, runVars, staticVars
  <2> QED
    BY <2>2, <2>5, <2>6, <2>7, <2>8, FullKept
<1>5. CASE ThreadReady(n)
  <2>1. /\ At(Lwp(n), "ready")
        /\ UNCHANGED <<stop, start, pid, sched, lastStats, timeoutSet, staticVars, sigVars, age, sigints>>
    BY <1>5 DEF ThreadReady
  <2>2. CASE Ends("failed") /\ UNCHANGED ready
    <3>1. UNCHANGED frames /\ proc' = "failed"
      BY <2>2 DEF Ends
    <3>2. Quiet
      BY <1>1, <2>1, <2>2 DEF Quiet, staticVars, sigVars
    <3>3. TimeOK' /\ PlainTypes'
      BY <2>1, <2>2, <3>1 DEF TimeOK, PlainTypes, staticVars, sigVars
    <3> QED
      BY <3>1, <3>2, <3>3, QuietStay
  <2>3. CASE ready' = [ready EXCEPT ![n] = TRUE] /\ Goto(Lwp(n), "wait_start")
    <3>1. "ready" \in ThreadLabels /\ "wait_start" \in ThreadLabels
      BY DEF ThreadLabels
    <3>2. /\ ShapeOK' /\ proc' = proc /\ proc = "running"
          /\ Bottom(Lwp(n)) = "ready" /\ Bottom("main")' = Bottom("main")
          /\ \A m \in Threads : m # n => Bottom(Lwp(m))' = Bottom(Lwp(m))
          /\ Runs(Stopping)' => Runs(Stopping)
      BY <2>1, <2>3, <3>1, ThreadGoto
    <3>3. /\ ready' \in [Threads -> BOOLEAN] /\ ready'[n]
          /\ \A m \in Threads : m # n => ready'[m] = ready[m]
      BY <2>3 DEF PlainTypes
    <3>4. (ready[0] => ready'[0]) /\ (ready[1] => ready'[1])
      BY <3>3 DEF Threads
    <3>5. TimeOK' /\ PlainTypes'
      BY <2>1, <3>2, <3>3 DEF TimeOK, PlainTypes, staticVars, sigVars
    <3>6. disp[Usr(n)] = "handler"
      BY <3>2 DEF OrderOK, HasHandler
    <3>7. OrderOK'
      BY <2>1, <3>2, <3>3, <3>4, <3>6 DEF OrderOK, sigVars
    <3>8. Ended' => Ended
      BY <2>1, <3>2 DEF Ended, staticVars
    <3>9. FullOK'
      BY <2>1, <3>8, FullKept DEF sigVars
    <3> QED
      BY <3>2, <3>5, <3>7, <3>9
  <2> QED
    BY <1>5, <2>2, <2>3 DEF ThreadReady
<1>6. CASE ThreadStart(n)
  <2>1. At(Lwp(n), "wait_start") /\ Goto(Lwp(n), "play")
    BY <1>6 DEF ThreadStart
  <2>2. UNCHANGED <<runVars, staticVars, sigVars, age, sigints>>
    BY <1>6 DEF ThreadStart
  <2>3. Quiet
    BY <1>1, <2>2 DEF Quiet, runVars, staticVars, sigVars
  <2>4. TimeOK' /\ PlainTypes'
    BY <2>1, <2>2 DEF Goto, TimeOK, PlainTypes, runVars, staticVars, sigVars
  <2>5. "wait_start" \in ThreadLabels /\ "play" \in ThreadLabels /\ NoFurther("wait_start", "play")
    BY DEF ThreadLabels, NoFurther, NoHandler, NotReady, Early, HasHandler
  <2> QED
    BY <2>1, <2>3, <2>4, <2>5, ThreadMoves, QuietGoto
<1>7. CASE ThreadFaults(n)
  <2>1. torn /\ UNCHANGED frames /\ proc' = "faulted"
    BY <1>7 DEF ThreadFaults, Ends
  <2>2. UNCHANGED <<runVars, staticVars, sigVars, age, sigints>>
    BY <1>7 DEF ThreadFaults
  <2>3. Quiet
    BY <1>1, <2>2 DEF Quiet, runVars, staticVars, sigVars
  <2>4. TimeOK' /\ PlainTypes'
    BY <2>1, <2>2 DEF TimeOK, PlainTypes, runVars, staticVars, sigVars
  <2> QED
    BY <1>1, <2>1, <2>3, <2>4, QuietStay
<1> QED
  BY <1>3, <1>4, <1>5, <1>6, <1>7 DEF ThreadStep

-----------------------------------------------------------------------------
\* The theorems

\* The strengthened invariant of a run with -t pthread: the types, the shape
\* of the stacks, the order in which handlers are installed and threads are
\* started, and that nothing but a SIGINT ends a run before its time.
THEOREM PthreadInvariant == Spec => []PthreadInv
<1>1. PthreadInv /\ [Next]_vars => PthreadInv'
  <2> SUFFICES ASSUME PthreadInv, [Next]_vars PROVE PthreadInv'
    OBVIOUS
  <2>1. ASSUME NEW l \in Lwps, Step(l) PROVE PthreadInv'
    BY <2>1, MainStepKeeps, ThreadStepKeeps, StopStepKeeps, IntrStepKeeps, HandlerStepKeeps
       DEF Step
  <2>2. CASE \/ \E s \in Sigs, l \in Lwps : Deliver(s, l)
             \/ Tick \/ Advance \/ SendSigint \/ Over \/ UNCHANGED vars
    BY <2>2, EnvironmentKeeps
  <2> QED
    BY <2>1, <2>2 DEF Next
<1> QED
  BY <1>1, PthreadInit, PTL DEF Spec

\* The values the variables take, the contexts on the three stacks included.
THEOREM PthreadTypeOK == Spec => []TypeOK
<1>1. PthreadInv => TypeOK
  BY DEF PthreadInv, PlainTypes, ShapeOK, Frame, TypeOK
<1> QED
  BY <1>1, PthreadInvariant, PTL

\* "should stop by this time" and not before: a run that nobody interrupts
\* and that does not fail while it starts lasts config.runtime, whichever
\* threads the signals reach.
THEOREM PthreadRunsFullTime == Spec => []RunsFullTime
<1>1. PthreadInv => RunsFullTime
  BY DEF PthreadInv, FullOK, Ended, RunsFullTime
<1> QED
  BY <1>1, PthreadInvariant, PTL

\* Once the threads are started, the stop signals that the process sends to
\* itself are handled: they never kill it.
THEOREM StopNotFatalHolds == Spec => []StopNotFatal
<1>1. PthreadInv => StopNotFatal
  BY DEF PthreadInv, OrderOK, StopNotFatal
<1> QED
  BY <1>1, PthreadInvariant, PTL
=============================================================================
