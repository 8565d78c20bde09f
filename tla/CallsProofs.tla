----------------------------- MODULE CallsProofs -----------------------------
(***************************************************************************)
(* The protocol of calls keeps the stack balanced: for every program, every *)
(* depth of calls and whatever C functions and continuations answer.  First *)
(* what a new slot and a new frame leave as they were, then the steps.      *)
(***************************************************************************)
EXTENDS Calls, SequenceTheorems, TLAPS

-----------------------------------------------------------------------------
(* Sequences. *)

LEMMA Cuts ==
  ASSUME NEW S, NEW s \in Seq(S), NEW m \in Nat, m <= Len(s)
  PROVE  /\ SubSeq(s, 1, m) \in Seq(S) /\ Len(SubSeq(s, 1, m)) = m
         /\ \A i \in 1 .. m : SubSeq(s, 1, m)[i] = s[i]
<1>1. Len(s) \in Nat  BY LenProperties
<1>2. CASE m = 0
  <2>1. SubSeq(s, 1, m) = <<>>  BY <1>1, <1>2
  <2> QED  BY <1>2, <2>1
<1>3. CASE m > 0
  <2>1. 1 \in 1 .. Len(s) /\ m \in 1 .. Len(s)  BY <1>1, <1>3
  <2> QED  BY <1>1, <1>3, <2>1
<1> QED  BY <1>2, <1>3

LEMMA Appends ==
  ASSUME NEW S, NEW s \in Seq(S), NEW x \in S
  PROVE  /\ Append(s, x) \in Seq(S) /\ Len(Append(s, x)) = Len(s) + 1
         /\ \A i \in 1 .. Len(s) : Append(s, x)[i] = s[i]
         /\ Append(s, x)[Len(s) + 1] = x
OBVIOUS

\* t is s up to m, and x above it.
IsAbove(t, s, m, x) ==
  /\ t \in Seq(Kinds) /\ Len(t) = m + 1
  /\ \A i \in 1 .. m : t[i] = s[i]
  /\ t[m + 1] = x

LEMMA AboveIs ==
  ASSUME stack \in Seq(Kinds), NEW m \in Nat, m <= Len(stack), NEW kind \in Kinds
  PROVE  IsAbove(Above(m, kind), stack, m, kind)
<1> DEFINE s == SubSeq(stack, 1, m)
<1>1. s \in Seq(Kinds) /\ Len(s) = m /\ \A i \in 1 .. m : s[i] = stack[i]  BY Cuts
<1> HIDE DEF s
<1>2. /\ Append(s, kind) \in Seq(Kinds) /\ Len(Append(s, kind)) = m + 1
      /\ \A i \in 1 .. m : Append(s, kind)[i] = stack[i]
      /\ Append(s, kind)[m + 1] = kind
  BY <1>1, Appends
<1>3. Above(m, kind) = Append(s, kind)  BY DEF Above, s
<1> QED  BY <1>2, <1>3 DEF IsAbove

-----------------------------------------------------------------------------
(* Frames. *)

\* frs are the first frames, k of them, and the last one may want something else.
Begins(frs, k, want) ==
  /\ frs \in Seq(Frame) /\ Len(frs) = k
  /\ \A f \in 1 .. k - 1 : frs[f] = frames[f]
  /\ frs[k] = [frames[k] EXCEPT !.want = want]

LEMMA FramesUpToBegin ==
  ASSUME frames \in Seq(Frame), NEW k \in 1 .. Len(frames)
  PROVE  Begins(FramesUpTo(k), k, frames[k].want)
<1>1. FramesUpTo(k) \in Seq(Frame) /\ Len(FramesUpTo(k)) = k
      /\ \A f \in 1 .. k : FramesUpTo(k)[f] = frames[f]
  BY Cuts DEF FramesUpTo
<1>2. frames[k] \in Frame  OBVIOUS
<1>3. frames[k] = [frames[k] EXCEPT !.want = frames[k].want]  BY <1>2 DEF Frame
<1> QED  BY <1>1, <1>3 DEF Begins

LEMMA WantsBegin ==
  ASSUME frames \in Seq(Frame), frames # <<>>, NEW n \in Nat
  PROVE  Begins(Wants(n), Len(frames), n)
<1>1. Len(frames) \in Nat /\ Len(frames) > 0 /\ DOMAIN frames = 1 .. Len(frames)
  BY EmptySeq, LenProperties
<1>2. Top \in Frame  BY <1>1 DEF Top
<1>3. Wants(n) = [frames EXCEPT ![Len(frames)] = [Top EXCEPT !.want = n]]
  BY DEF Wants, Top
<1>4. [Top EXCEPT !.want = n] \in Frame  BY <1>2 DEF Frame
<1>5. Wants(n) \in Seq(Frame) /\ Len(Wants(n)) = Len(frames)  BY <1>1, <1>3, <1>4
<1>6. \A f \in 1 .. Len(frames) - 1 : Wants(n)[f] = frames[f]  BY <1>1, <1>3
<1>7. Wants(n)[Len(frames)] = [frames[Len(frames)] EXCEPT !.want = n]
  BY <1>1, <1>3 DEF Top
<1> QED  BY <1>5, <1>6, <1>7 DEF Begins

\* What a frame has on one stack it has on another one that is the same up to there.
Same(stk, stk2, m) == m <= Len(stk2) /\ \A i \in 1 .. m : stk2[i] = stk[i]

LEMMA SameBelow ==
  ASSUME NEW stk \in Seq(Kinds), NEW stk2 \in Seq(Kinds), NEW m \in Nat,
         NEW n \in Nat, n <= m, Same(stk, stk2, m)
  PROVE  Same(stk, stk2, n)
<1>1. Len(stk2) \in Nat  BY LenProperties
<1> QED  BY <1>1 DEF Same

LEMMA OwnKept ==
  ASSUME NEW stk \in Seq(Kinds), NEW stk2 \in Seq(Kinds), NEW fr \in Frame,
         NEW n \in Nat, Own(stk, fr, n), Same(stk, stk2, fr.base + n)
  PROVE  Own(stk2, fr, n)
<1>1. fr.base \in Nat  BY DEF Frame
<1>2. fr.base + n <= Len(stk2)  BY DEF Same
<1>3. ASSUME NEW i \in fr.base .. fr.base + n, i > 0
      PROVE  stk2[i] = "value"
  <2>1. i \in 1 .. fr.base + n  BY <1>1, <1>3
  <2> QED  BY <1>3, <2>1 DEF Own, Same
<1> QED  BY <1>2, <1>3 DEF Own

LEMMA WaitsKept ==
  ASSUME NEW stk \in Seq(Kinds), NEW stk2 \in Seq(Kinds), NEW fr \in Frame,
         NEW sptr \in Nat, Waits(stk, fr, sptr), Same(stk, stk2, sptr)
  PROVE  Waits(stk2, fr, sptr)
<1>1. fr.base \in Nat /\ fr.want \in Nat /\ fr.want > 0
      /\ fr.base + fr.want - 1 <= sptr
  BY DEF Frame, Waits
<1>2. Own(stk2, fr, fr.want - 1)
  <2>1. fr.want - 1 \in Nat /\ Own(stk, fr, fr.want - 1)  BY <1>1 DEF Waits
  <2>2. Same(stk, stk2, fr.base + (fr.want - 1))
    <3>1. Len(stk2) \in Nat  BY LenProperties
    <3> QED  BY <1>1, <3>1 DEF Same
  <2> QED  BY <2>1, <2>2, OwnKept
<1>3. \A i \in fr.base + fr.want .. sptr : stk2[i] \in Continuations
  BY <1>1 DEF Waits, Same
<1> QED  BY <1>1, <1>2, <1>3 DEF Waits, Same

\* What InOrder says, frame by frame.
LEMMA Unfold ==
  ASSUME NEW stk, NEW frs, InOrder(stk, frs)
  PROVE  /\ frs \in Seq(Frame) /\ Len(frs) \in Nat /\ Len(frs) > 0
         /\ DOMAIN frs = 1 .. Len(frs)
         /\ \A f \in 1 .. Len(frs) :
              /\ frs[f] \in Frame
              /\ frs[f].sptr \in Nat /\ frs[f].base \in Nat /\ frs[f].want \in Nat
              /\ frs[f].base \in {frs[f].sptr, frs[f].sptr + 1}
         /\ \A f, g \in 1 .. Len(frs) : f <= g => frs[f].base <= frs[g].base
         /\ \A f \in 1 .. Len(frs) :
              f + 1 \in 1 .. Len(frs) => Follows(stk, frs[f], frs[f + 1])
         /\ Own(stk, frs[Len(frs)], 0)
<1>1. /\ frs \in Seq(Frame) /\ Len(frs) \in Nat /\ Len(frs) > 0
      /\ DOMAIN frs = 1 .. Len(frs)
  BY EmptySeq, LenProperties DEF InOrder
<1>2. ASSUME NEW f \in 1 .. Len(frs)
      PROVE  /\ frs[f] \in Frame
             /\ frs[f].sptr \in Nat /\ frs[f].base \in Nat /\ frs[f].want \in Nat
             /\ frs[f].base \in {frs[f].sptr, frs[f].sptr + 1}
  <2>1. frs[f] \in Frame  BY <1>1, <1>2
  <2>2. frs[f].sptr \in Nat /\ frs[f].base \in Nat /\ frs[f].want \in Nat
    BY <2>1 DEF Frame
  <2>3. frs[f].base \in {frs[f].sptr, frs[f].sptr + 1}  BY <1>1, <1>2 DEF InOrder
  <2> QED  BY <2>1, <2>2, <2>3
<1>3. \A f, g \in 1 .. Len(frs) : f <= g => frs[f].base <= frs[g].base
  BY <1>1 DEF InOrder
<1>4. \A f \in 1 .. Len(frs) :
        f + 1 \in 1 .. Len(frs) => Follows(stk, frs[f], frs[f + 1])
  BY <1>1 DEF InOrder
<1> QED  BY <1>1, <1>2, <1>3, <1>4 DEF InOrder

\* The first frames stay in order when the stack is the same where the last of them
\* began.
LEMMA Kept ==
  ASSUME stack \in Seq(Kinds), InOrder(stack, frames), NEW k \in 1 .. Len(frames),
         NEW want \in Nat, NEW frs, Begins(frs, k, want),
         NEW stk \in Seq(Kinds), Same(stack, stk, frames[k].base)
  PROVE  InOrder(stk, frs)
<1>0. /\ frames \in Seq(Frame) /\ Len(frames) \in Nat
      /\ \A f \in 1 .. Len(frames) :
           /\ frames[f] \in Frame
           /\ frames[f].sptr \in Nat /\ frames[f].base \in Nat /\ frames[f].want \in Nat
           /\ frames[f].base \in {frames[f].sptr, frames[f].sptr + 1}
      /\ \A f, g \in 1 .. Len(frames) : f <= g => frames[f].base <= frames[g].base
      /\ \A f \in 1 .. Len(frames) :
           f + 1 \in 1 .. Len(frames) => Follows(stack, frames[f], frames[f + 1])
      /\ Own(stack, frames[Len(frames)], 0)
  BY Unfold
<1>1. k \in Nat /\ k >= 1 /\ k <= Len(frames) /\ Len(frames) \in Nat  BY <1>0
<1>2. frs \in Seq(Frame) /\ Len(frs) = k /\ DOMAIN frs = 1 .. k
  BY <1>1, LenProperties DEF Begins
<1>3. ASSUME NEW f \in 1 .. k
      PROVE  /\ f \in 1 .. Len(frames) /\ frames[f] \in Frame /\ frs[f] \in Frame
             /\ frs[f].base = frames[f].base /\ frs[f].sptr = frames[f].sptr
             /\ f < k => frs[f] = frames[f]
  <2>1. f \in 1 .. Len(frames) /\ frames[f] \in Frame /\ frs[f] \in Frame
    BY <1>0, <1>1, <1>2, <1>3
  <2>2. CASE f < k
    <3>1. frs[f] = frames[f]  BY <1>1, <1>3, <2>2 DEF Begins
    <3> QED  BY <2>1, <3>1
  <2>3. CASE f = k
    <3>1. frs[f] = [frames[f] EXCEPT !.want = want]  BY <2>3 DEF Begins
    <3>2. frs[f].base = frames[f].base /\ frs[f].sptr = frames[f].sptr
      BY <2>1, <3>1 DEF Frame
    <3>3. ~(f < k)  BY <1>1, <2>3
    <3> QED  BY <2>1, <3>2, <3>3
  <2> QED  BY <1>1, <1>3, <2>2, <2>3
<1>4. frs # <<>>  BY <1>1, <1>2
<1>5. frs[1].base = 0
  <2>1. frames[1].base = 0  BY DEF InOrder
  <2> QED  BY <1>1, <1>3, <2>1
<1>6. \A f \in 1 .. k : frs[f].base \in {frs[f].sptr, frs[f].sptr + 1}
  BY <1>0, <1>3
<1>7. \A f, g \in 1 .. k : f <= g => frs[f].base <= frs[g].base
  BY <1>0, <1>3
<1>8. ASSUME NEW f \in 1 .. k, f + 1 \in 1 .. k
      PROVE  Follows(stk, frs[f], frs[f + 1])
  <2>1. f \in 1 .. Len(frames) /\ f + 1 \in 1 .. Len(frames) /\ f < k
    BY <1>1, <1>8
  <2>2. Follows(stack, frames[f], frames[f + 1])  BY <1>0, <2>1
  <2>3. frs[f] = frames[f] /\ frames[f] \in Frame  BY <1>3, <1>8, <2>1
  <2>4. frs[f + 1].base = frames[f + 1].base /\ frs[f + 1].sptr = frames[f + 1].sptr
    BY <1>3, <1>8
  <2>5. /\ frames[f + 1].sptr \in Nat /\ frames[f + 1].base \in Nat
        /\ frames[f + 1].base \in {frames[f + 1].sptr, frames[f + 1].sptr + 1}
        /\ frames[f + 1].base <= frames[k].base /\ frames[k].base \in Nat
    BY <1>0, <1>1, <1>8, <2>1
  <2>6. Same(stack, stk, frames[f + 1].sptr)
    <3>1. frames[f + 1].sptr <= frames[k].base  BY <2>5
    <3> QED  BY <2>5, <3>1, SameBelow, SMTT(30)
  <2>7. Waits(stk, frames[f], frames[f + 1].sptr)
    <3>1. Waits(stack, frames[f], frames[f + 1].sptr)  BY <2>2 DEF Follows
    <3> QED  BY <2>3, <2>5, <2>6, <3>1, WaitsKept
  <2> QED  BY <2>2, <2>3, <2>4, <2>7 DEF Follows
<1>9. frames[k].base \in Nat /\ frames[k].want \in Nat /\ frames[k] \in Frame
  BY <1>0
<1>10. Own(stack, frames[k], 0)
  <2>1. CASE k = Len(frames)  BY <1>0, <2>1
  <2>2. CASE k < Len(frames)
    <3>1. Follows(stack, frames[k], frames[k + 1])
      <4>1. k + 1 \in 1 .. Len(frames)  BY <1>1, <2>2
      <4> QED  BY <1>0, <4>1
    <3>2. frames[k].want > 0 /\ Own(stack, frames[k], frames[k].want - 1)
      BY <3>1 DEF Follows, Waits
    <3>3. Len(stack) \in Nat  BY LenProperties
    <3>4. frames[k].base + 0 <= Len(stack)  BY <1>9, <3>2, <3>3 DEF Own
    <3>5. ASSUME NEW i \in frames[k].base .. frames[k].base + 0, i > 0
          PROVE  stack[i] = "value"
      <4>1. i \in frames[k].base .. frames[k].base + (frames[k].want - 1)
        BY <1>9, <3>2, <3>5
      <4> QED  BY <3>2, <3>5, <4>1 DEF Own
    <3> QED  BY <3>4, <3>5 DEF Own
  <2> QED  BY <1>1, <2>1, <2>2
<1>11. Own(stk, frs[k], 0)
  <2>1. frames[k].base + 0 = frames[k].base  BY <1>9
  <2>2. Same(stack, stk, frames[k].base + 0)  BY <2>1
  <2>3. Own(stk, frames[k], 0)  BY <1>9, <1>10, <2>2, OwnKept
  <2>4. k \in 1 .. k  BY <1>1
  <2>5. frs[k].base = frames[k].base  BY <1>3, <2>4
  <2> QED  BY <2>3, <2>5 DEF Own
<1> QED  BY <1>2, <1>4, <1>5, <1>6, <1>7, <1>8, <1>11 DEF InOrder

\* A new frame above them.
LEMMA Pushed ==
  ASSUME NEW stk \in Seq(Kinds), NEW frs, InOrder(stk, frs), NEW fr \in Frame,
         fr.base \in {fr.sptr, fr.sptr + 1},
         Follows(stk, frs[Len(frs)], fr), Own(stk, fr, 0)
  PROVE  InOrder(stk, Append(frs, fr))
<1> DEFINE u == Append(frs, fr)
           n == Len(frs)
<1>1. /\ frs \in Seq(Frame) /\ n \in Nat /\ n > 0 /\ DOMAIN frs = 1 .. n
  BY EmptySeq, LenProperties DEF InOrder
<1>2. /\ u \in Seq(Frame) /\ Len(u) = n + 1 /\ u[n + 1] = fr
      /\ \A f \in 1 .. n : u[f] = frs[f]
  BY <1>1, Appends
<1>3. DOMAIN u = 1 .. n + 1  BY <1>1, <1>2, LenProperties
<1> HIDE DEF u, n
<1>4. frs[n] \in Frame /\ frs[n].base <= fr.base
  <2>1. frs[n] \in Frame  BY <1>1
  <2>2. Waits(stk, frs[n], fr.sptr)  BY DEF Follows, n
  <2> QED  BY <2>1, <2>2 DEF Waits, Frame
<1>5. u # <<>> /\ u[1].base = 0  BY <1>1, <1>2 DEF InOrder
<1>6. \A f \in 1 .. n + 1 : u[f].base \in {u[f].sptr, u[f].sptr + 1}
  BY <1>1, <1>2 DEF InOrder
<1>7. ASSUME NEW f \in 1 .. n + 1, NEW g \in 1 .. n + 1, f <= g
      PROVE  u[f].base <= u[g].base
  <2>1. CASE g \in 1 .. n  BY <1>1, <1>2, <1>7, <2>1 DEF InOrder
  <2>2. CASE f = n + 1
    <3>1. g = n + 1 /\ u[g] = fr  BY <1>1, <1>2, <1>7, <2>2
    <3> QED  BY <2>2, <3>1 DEF Frame
  <2>3. CASE g = n + 1 /\ f \in 1 .. n
    <3>1. frs[f].base <= frs[n].base /\ frs[f] \in Frame  BY <1>1, <2>3 DEF InOrder
    <3>2. frs[f].base \in Nat /\ frs[n].base \in Nat /\ fr.base \in Nat
      BY <1>4, <3>1 DEF Frame
    <3> QED  BY <1>2, <1>4, <2>3, <3>1, <3>2
  <2> QED  BY <1>1, <1>7, <2>1, <2>2, <2>3
<1>8. ASSUME NEW f \in 1 .. n + 1, f + 1 \in 1 .. n + 1
      PROVE  Follows(stk, u[f], u[f + 1])
  <2>1. CASE f + 1 \in 1 .. n
    <3>1. f \in 1 .. n  BY <1>1, <1>8, <2>1
    <3> QED  BY <1>1, <1>2, <2>1, <3>1 DEF InOrder
  <2>2. CASE f = n  BY <1>1, <1>2, <2>2 DEF n
  <2> QED  BY <1>1, <1>8, <2>1, <2>2
<1>9. Own(stk, u[Len(u)], 0)  BY <1>2
<1>10. InOrder(stk, u)
  BY <1>2, <1>3, <1>5, <1>6, <1>7, <1>8, <1>9 DEF InOrder
<1> QED  BY <1>10 DEF u

LEMMA AloneAbove ==
  ASSUME NEW stk \in Seq(Kinds), Alone(stk), NEW m \in Nat, m <= Len(stk),
         NEW kind, NEW t, IsAbove(t, stk, m, kind),
         kind = "passing" => m = 0 \/ stk[m] \notin Continuations
  PROVE  Alone(t)
<1>1. /\ Len(stk) \in Nat /\ DOMAIN stk = 1 .. Len(stk)
      /\ DOMAIN t = 1 .. m + 1
  BY LenProperties DEF IsAbove
<1>2. ASSUME NEW i \in DOMAIN t, t[i] = "passing", i - 1 \in DOMAIN t
      PROVE  t[i - 1] \notin Continuations
  <2>1. i \in Nat /\ i - 1 \in 1 .. m /\ t[i - 1] = stk[i - 1]
    BY <1>1, <1>2 DEF IsAbove
  <2>2. CASE i = m + 1  BY <1>1, <1>2, <2>1, <2>2 DEF IsAbove
  <2>3. CASE i <= m
    <3>1. i \in DOMAIN stk /\ i - 1 \in DOMAIN stk /\ stk[i] = "passing"
      BY <1>1, <1>2, <2>1, <2>3 DEF IsAbove
    <3> QED  BY <2>1, <3>1 DEF Alone
  <2> QED  BY <1>1, <1>2, <2>1, <2>2, <2>3
<1> QED  BY <1>2 DEF Alone

LEMMA SameAbove ==
  ASSUME NEW t, NEW m \in Nat, NEW kind, IsAbove(t, stack, m, kind),
         NEW n \in Nat, n <= m
  PROVE  Same(stack, t, n)
BY DEF IsAbove, Same

LEMMA LastOf ==
  ASSUME frames \in Seq(Frame), NEW k \in 1 .. Len(frames), NEW want \in Nat, NEW frs,
         Begins(frs, k, want)
  PROVE  /\ frs[Len(frs)] \in Frame /\ frs[Len(frs)].base = frames[k].base
         /\ frs[Len(frs)].want = want
<1>1. Len(frs) = k /\ frs[k] = [frames[k] EXCEPT !.want = want]  BY DEF Begins
<1>2. frames[k] \in Frame  OBVIOUS
<1> QED  BY <1>1, <1>2 DEF Frame

-----------------------------------------------------------------------------
(* A value that is put where a frame waits for it, and a continuation whose *)
(* function is called.                                                      *)

Quiet == stack \in Seq(Kinds) /\ InOrder(stack, frames) /\ Alone(stack)

\* A frame's height, and that what waits in it is above.
LEMMA WaitsAt ==
  ASSUME NEW fr \in Frame, NEW stk \in Seq(Kinds), NEW sptr, Waits(stk, fr, sptr)
  PROVE  /\ fr.base \in Nat /\ fr.want \in Nat /\ fr.want > 0
         /\ fr.base + fr.want - 1 <= sptr /\ sptr <= Len(stk) /\ Len(stk) \in Nat
         /\ \A i \in fr.base .. fr.base + fr.want - 1 : i > 0 => stk[i] = "value"
         /\ \A i \in fr.base + fr.want .. sptr : stk[i] \in Continuations
<1>1. fr.base \in Nat /\ fr.want \in Nat  BY DEF Frame
<1>2. Len(stk) \in Nat  BY LenProperties
<1>3. fr.base + (fr.want - 1) = fr.base + fr.want - 1  BY <1>1
<1>4. \A i \in fr.base .. fr.base + fr.want - 1 : i > 0 => stk[i] = "value"
  BY <1>3 DEF Waits, Own
<1> QED  BY <1>1, <1>2, <1>4 DEF Waits

LEMMA Lands ==
  ASSUME Quiet, NEW k \in 1 .. Len(frames), NEW m,
         m = frames[k].base + frames[k].want - 1, Waits(stack, frames[k], m),
         stack' = Above(m, "value"), frames' = FramesUpTo(k),
         check' = FALSE, halted' \in BOOLEAN
  PROVE  IInv'
<1>1. stack \in Seq(Kinds) /\ InOrder(stack, frames) /\ Alone(stack)  BY DEF Quiet
<1>2. frames \in Seq(Frame) /\ frames[k] \in Frame  BY <1>1, Unfold
<1>3. /\ frames[k].base \in Nat /\ frames[k].want \in Nat /\ frames[k].want > 0
      /\ m <= Len(stack) /\ Len(stack) \in Nat
      /\ \A i \in frames[k].base .. m : i > 0 => stack[i] = "value"
  BY <1>1, <1>2, WaitsAt
<1>4. m \in Nat /\ frames[k].base <= m  BY <1>3
<1>5. IsAbove(stack', stack, m, "value")
  <2>1. "value" \in Kinds  BY DEF Kinds
  <2> QED  BY <1>1, <1>3, <1>4, <2>1, AboveIs
<1>6. stack' \in Seq(Kinds) /\ Len(stack') = m + 1  BY <1>5 DEF IsAbove
<1>7. Begins(frames', k, frames[k].want)  BY <1>2, FramesUpToBegin
<1>8. InOrder(stack', frames')
  <2>1. Same(stack, stack', frames[k].base)  BY <1>3, <1>4, <1>5, SameAbove
  <2> QED  BY <1>1, <1>3, <1>6, <1>7, <2>1, Kept
<1>9. Alone(stack')
  <2>1. "value" # "passing"  OBVIOUS
  <2> QED  BY <1>1, <1>3, <1>4, <1>5, <2>1, AloneAbove
<1>10. Top' = frames'[Len(frames')]  BY DEF Top
<1>11. Top'.base = frames[k].base /\ Top'.want = frames[k].want
  BY <1>2, <1>3, <1>7, <1>10, LastOf
<1>12. Top'.base + Top'.want = m + 1  BY <1>3, <1>11
<1>13. Own(stack', Top', Top'.want)
  <2>1. ASSUME NEW i \in Top'.base .. Top'.base + Top'.want, i > 0
        PROVE  stack'[i] = "value"
    <3>1. i \in frames[k].base .. m \/ i = m + 1  BY <1>3, <1>4, <1>11, <1>12, <2>1
    <3>2. CASE i = m + 1  BY <1>5, <3>2 DEF IsAbove
    <3>3. CASE i \in frames[k].base .. m
      <4>1. i \in 1 .. m /\ stack[i] = "value"  BY <1>3, <1>4, <2>1, <3>3
      <4> QED  BY <1>5, <4>1 DEF IsAbove
    <3> QED  BY <3>1, <3>2, <3>3
  <2>2. Top'.base + Top'.want <= Len(stack')  BY <1>4, <1>6, <1>12
  <2> QED  BY <2>1, <2>2 DEF Own
<1> QED  BY <1>6, <1>8, <1>9, <1>12, <1>13 DEF IInv

LEMMA FunctionAgain ==
  ASSUME Quiet, NEW k \in 1 .. Len(frames), NEW slot \in Nat,
         Waits(stack, frames[k], slot), CallsFunction(k, slot), halted' \in BOOLEAN
  PROVE  IInv'
<1>1. stack \in Seq(Kinds) /\ InOrder(stack, frames) /\ Alone(stack)  BY DEF Quiet
<1>2. frames \in Seq(Frame) /\ frames[k] \in Frame  BY <1>1, Unfold
<1>3. /\ frames[k].base \in Nat /\ frames[k].want \in Nat /\ frames[k].want > 0
      /\ frames[k].base + frames[k].want - 1 <= slot
      /\ slot <= Len(stack) /\ Len(stack) \in Nat
  BY <1>1, <1>2, WaitsAt
<1>4. IsAbove(stack', stack, slot, "value")
  <2>1. "value" \in Kinds /\ stack' = Above(slot, "value")  BY DEF Kinds, CallsFunction
  <2> QED  BY <1>1, <1>3, <2>1, AboveIs
<1>5. stack' \in Seq(Kinds) /\ Len(stack') = slot + 1 /\ stack'[slot + 1] = "value"
  BY <1>4 DEF IsAbove
<1> DEFINE frs == FramesUpTo(k)
           new == Began(slot, slot + 1)
<1>6. frames' = Append(frs, new) /\ check' = FALSE  BY DEF CallsFunction
<1>7. Begins(frs, k, frames[k].want)  BY <1>2, FramesUpToBegin
<1>8. /\ new \in Frame /\ new.sptr = slot /\ new.base = slot + 1 /\ new.want = 0
  BY DEF Began, Frame
<1> HIDE DEF frs, new
<1>9. Same(stack, stack', slot) /\ Same(stack, stack', frames[k].base)
  BY <1>3, <1>4, SameAbove
<1>10. InOrder(stack', frs)  BY <1>1, <1>3, <1>5, <1>7, <1>9, Kept
<1>11. frs \in Seq(Frame) /\ frs[Len(frs)] = frames[k]
  <2>1. FramesUpTo(k) \in Seq(Frame) /\ Len(FramesUpTo(k)) = k
        /\ FramesUpTo(k)[k] = frames[k]
    BY <1>2, Cuts DEF FramesUpTo
  <2> QED  BY <2>1 DEF frs
<1>12. Follows(stack', frs[Len(frs)], new)
  <2>1. Waits(stack', frames[k], slot)  BY <1>1, <1>2, <1>5, <1>9, WaitsKept
  <2> QED  BY <1>8, <1>11, <2>1 DEF Follows
<1>13. Own(stack', new, 0)
  <2>1. \A i \in slot + 1 .. slot + 1 + 0 : i = slot + 1  OBVIOUS
  <2>2. new.base + 0 <= Len(stack')  BY <1>5, <1>8
  <2> QED  BY <1>5, <1>8, <2>1, <2>2 DEF Own
<1>14. InOrder(stack', frames')
  <2>1. new.base \in {new.sptr, new.sptr + 1}  BY <1>8
  <2> QED  BY <1>5, <1>6, <1>8, <1>10, <1>12, <1>13, <2>1, Pushed
<1>15. Alone(stack')
  <2>1. "value" # "passing"  OBVIOUS
  <2> QED  BY <1>1, <1>3, <1>4, <2>1, AloneAbove
<1>16. Top' = new
  <2>1. /\ Len(frames') \in Nat /\ Len(frames') = Len(frs) + 1
        /\ frames'[Len(frs) + 1] = new
    BY <1>6, <1>8, <1>11, Appends, LenProperties
  <2>2. Top' = frames'[Len(frames')]  BY DEF Top
  <2> QED  BY <2>1, <2>2
<1>17. Own(stack', Top', Top'.want) /\ Len(stack') = Top'.base + Top'.want
  BY <1>5, <1>8, <1>13, <1>16
<1> QED  BY <1>5, <1>6, <1>14, <1>15, <1>17 DEF IInv

LEMMA CFunctionAgain ==
  ASSUME Quiet, NEW k \in 1 .. Len(frames), NEW slot \in Nat,
         Waits(stack, frames[k], slot), NEW kind \in Kinds, kind # "passing",
         CallsCFunction(k, slot, kind), halted' \in BOOLEAN
  PROVE  IInv'
<1>1. stack \in Seq(Kinds) /\ InOrder(stack, frames) /\ Alone(stack)  BY DEF Quiet
<1>2. frames \in Seq(Frame) /\ frames[k] \in Frame  BY <1>1, Unfold
<1>3. /\ frames[k].base \in Nat /\ frames[k].want \in Nat /\ frames[k].want > 0
      /\ frames[k].base + frames[k].want - 1 <= slot
      /\ slot <= Len(stack) /\ Len(stack) \in Nat
  BY <1>1, <1>2, WaitsAt
<1>4. stack' = Above(slot, kind) /\ frames' = FramesUpTo(k) /\ check' = TRUE
  BY DEF CallsCFunction
<1>5. IsAbove(stack', stack, slot, kind)  BY <1>1, <1>3, <1>4, AboveIs
<1>6. stack' \in Seq(Kinds) /\ Len(stack') = slot + 1  BY <1>5 DEF IsAbove
<1>7. Begins(frames', k, frames[k].want)  BY <1>2, <1>4, FramesUpToBegin
<1>8. Same(stack, stack', slot) /\ Same(stack, stack', frames[k].base)
  BY <1>3, <1>5, SameAbove
<1>9. InOrder(stack', frames')  BY <1>1, <1>3, <1>6, <1>7, <1>8, Kept
<1>10. Alone(stack')  BY <1>1, <1>3, <1>5, AloneAbove
<1>11. Top' = frames[k]
  <2>1. Len(frames') = k /\ frames'[k] = frames[k]  BY <1>2, <1>4, Cuts DEF FramesUpTo
  <2>2. Top' = frames'[Len(frames')]  BY DEF Top
  <2> QED  BY <2>1, <2>2
<1>12. Waits(stack', Top', Len(stack') - 1)
  <2>1. Waits(stack', frames[k], slot)  BY <1>1, <1>2, <1>6, <1>8, WaitsKept
  <2>2. Len(stack') - 1 = slot  BY <1>6
  <2> QED  BY <1>11, <2>1, <2>2
<1>13. Len(stack') > 0  BY <1>6
<1> QED  BY <1>4, <1>6, <1>9, <1>10, <1>12, <1>13 DEF IInv

LEMMA Again ==
  ASSUME Quiet, NEW k \in 1 .. Len(frames), NEW slot \in Nat,
         Waits(stack, frames[k], slot), CallsAgain(k, slot), halted' \in BOOLEAN
  PROVE  IInv'
<1>1. CASE CallsFunction(k, slot)  BY <1>1, FunctionAgain
<1>2. CASE \E kind \in Kinds \ {"passing"} : CallsCFunction(k, slot, kind)
  <2>1. PICK kind \in Kinds \ {"passing"} : CallsCFunction(k, slot, kind)  BY <1>2
  <2> QED  BY <2>1, CFunctionAgain
<1> QED  BY <1>1, <1>2 DEF CallsAgain

\* A value gets no further down than to where the frame waits for it: what the frame
\* has of its own is not a continuation.  It stays nowhere above.
LEMMA Returns ==
  ASSUME Quiet, NEW n \in 1 .. Len(frames), NEW top \in Nat, top > 0,
         Waits(stack, frames[n], top - 1), AfterFuncReturn(n, top), halted' \in BOOLEAN
  PROVE  IInv'
<1>1. stack \in Seq(Kinds) /\ InOrder(stack, frames) /\ Alone(stack)  BY DEF Quiet
<1>0. PICK k \in 1 .. n : \E slot \in 1 .. Arrival(n, top, k) :
        /\ Reaches(n, top, k, slot)
        /\ \/ Settles(k, slot, slot < Arrival(n, top, k))
           \/ slot < Arrival(n, top, k) /\ CallsAgain(k, slot)
  BY DEF AfterFuncReturn
<1>2. PICK slot \in 1 .. Arrival(n, top, k) :
        /\ Reaches(n, top, k, slot)
        /\ \/ Settles(k, slot, slot < Arrival(n, top, k))
           \/ slot < Arrival(n, top, k) /\ CallsAgain(k, slot)
  BY <1>0
<1> DEFINE a == Arrival(n, top, k)
<1>3. a \in Nat /\ a > 0 /\ Waits(stack, frames[k], a - 1) /\ k \in 1 .. Len(frames)
  <2>1. Len(frames) \in Nat /\ k \in 1 .. Len(frames)  BY <1>1, Unfold
  <2>2. CASE k = n  BY <2>1, <2>2 DEF Arrival
  <2>3. CASE k < n
    <3>1. k + 1 \in 1 .. Len(frames)  BY <2>1, <2>3
    <3>2. Follows(stack, frames[k], frames[k + 1]) /\ frames[k + 1].sptr \in Nat
      BY <1>1, <2>1, <3>1, Unfold
    <3>3. a = frames[k + 1].sptr + 1  BY <2>3 DEF Arrival
    <3>4. a - 1 = frames[k + 1].sptr  BY <3>2, <3>3
    <3>5. a \in Nat /\ a > 0  BY <3>2, <3>3
    <3>6. Waits(stack, frames[k], a - 1)  BY <3>2, <3>4, Zenon DEF Follows
    <3> QED  BY <2>1, <3>5, <3>6
  <2> QED  BY <2>1, <2>2, <2>3
<1>4. slot \in Nat /\ slot > 0 /\ slot <= a /\ Resumed(slot, a)
  <2>1. slot \in 1 .. a /\ Resumed(slot, a)  BY <1>2 DEF Reaches
  <2> QED  BY <1>3, <2>1
<1>5. \/ Settles(k, slot, slot < a)
      \/ slot < a /\ CallsAgain(k, slot)
  BY <1>2
<1> HIDE DEF a
<1>6. frames[k] \in Frame  BY <1>1, <1>3, Unfold
<1> DEFINE m == frames[k].base + frames[k].want - 1
<1>7. /\ m \in Nat /\ frames[k].base <= m /\ m <= a - 1 /\ a - 1 <= Len(stack)
      /\ Len(stack) \in Nat /\ DOMAIN stack = 1 .. Len(stack)
      /\ \A i \in frames[k].base .. m : i > 0 => stack[i] = "value"
      /\ \A i \in m + 1 .. a - 1 : stack[i] \in Continuations
      /\ frames[k].base \in Nat
  <2>1. /\ frames[k].base \in Nat /\ frames[k].want \in Nat /\ frames[k].want > 0
        /\ m <= a - 1 /\ a - 1 <= Len(stack) /\ Len(stack) \in Nat
        /\ \A i \in frames[k].base .. m : i > 0 => stack[i] = "value"
        /\ \A i \in frames[k].base + frames[k].want .. a - 1 : stack[i] \in Continuations
    BY <1>1, <1>3, <1>6, WaitsAt
  <2>2. m + 1 = frames[k].base + frames[k].want /\ m \in Nat /\ frames[k].base <= m
    BY <2>1
  <2>3. DOMAIN stack = 1 .. Len(stack)  BY <1>1, LenProperties
  <2> HIDE DEF m
  <2> QED  BY <2>1, <2>2, <2>3
<1> HIDE DEF m
<1>8. m < slot
  <2>1. SUFFICES ASSUME slot <= m PROVE FALSE  BY <1>4, <1>7
  <2>2. m > 0 /\ m \in slot .. a - 1  BY <1>3, <1>4, <1>7, <2>1
  <2>3. stack[m] = "value"  BY <1>7, <2>2
  <2>4. stack[m] \in Continuations  BY <1>4, <2>2 DEF Resumed, IsContinuation
  <2> QED  BY <2>3, <2>4 DEF Continuations
<1>9. CASE Settles(k, slot, slot < a)
  <2>1. slot - 1 = m
    <3>1. SUFFICES ASSUME slot - 1 # m PROVE FALSE  OBVIOUS
    <3>2. slot - 1 \in m + 1 .. a - 1 /\ slot - 1 \in DOMAIN stack
      BY <1>3, <1>4, <1>7, <1>8, <3>1
    <3>3. stack[slot - 1] \in Continuations  BY <1>7, <3>2
    <3>4. slot < a /\ stack[slot] = "passing"
      BY <1>9, <3>2, <3>3 DEF Settles, IsContinuation
    <3>5. slot \in DOMAIN stack  BY <1>3, <1>4, <1>7, <3>4
    <3> QED  BY <1>1, <3>2, <3>3, <3>4, <3>5 DEF Alone
  <2>2. Waits(stack, frames[k], m)
    <3>1. Own(stack, frames[k], frames[k].want - 1) /\ frames[k].want > 0
      BY <1>3 DEF Waits
    <3>2. m = frames[k].base + frames[k].want - 1  BY DEF m
    <3>3. frames[k].want \in Nat  BY <1>6 DEF Frame
    <3>4. \A i \in frames[k].base + frames[k].want .. m : FALSE
      BY <1>7, <3>2, <3>3
    <3>5. frames[k].base + frames[k].want - 1 <= m /\ m <= Len(stack)
      BY <1>3, <1>7, <3>2
    <3> QED  BY <3>1, <3>4, <3>5 DEF Waits
  <2>3. stack' = Above(m, "value") /\ frames' = FramesUpTo(k) /\ check' = FALSE
    BY <1>9, <2>1 DEF Settles
  <2>4. m = frames[k].base + frames[k].want - 1  BY DEF m
  <2> QED  BY <1>3, <2>2, <2>3, <2>4, Lands
<1>10. CASE slot < a /\ CallsAgain(k, slot)
  <2>1. Waits(stack, frames[k], slot)
    <3>1. /\ Own(stack, frames[k], frames[k].want - 1) /\ frames[k].want > 0
      BY <1>3 DEF Waits
    <3>2. m = frames[k].base + frames[k].want - 1  BY DEF m
    <3>3. frames[k].want \in Nat  BY <1>6 DEF Frame
    <3>4. ASSUME NEW i \in frames[k].base + frames[k].want .. slot
          PROVE  stack[i] \in Continuations
      <4>0. frames[k].base \in Nat /\ m \in Nat  BY <1>7
      <4>1. frames[k].base + frames[k].want = m + 1
        <5>1. \A b, w \in Nat : b + w = b + w - 1 + 1  OBVIOUS
        <5> QED  BY <3>2, <3>3, <4>0, <5>1
      <4>2. i \in m + 1 .. slot  BY <3>4, <4>1
      <4>3. a \in Nat /\ slot \in Nat /\ m \in Nat /\ slot < a  BY <1>3, <1>4, <1>7, <1>10
      <4>4. i \in m + 1 .. a - 1  BY <4>2, <4>3
      <4> QED  BY <1>7, <4>4
    <3>5. frames[k].base + frames[k].want - 1 <= slot /\ slot <= Len(stack)
      BY <1>3, <1>4, <1>7, <1>8, <1>10, <3>2
    <3> QED  BY <3>1, <3>4, <3>5 DEF Waits
  <2> QED  BY <1>3, <1>4, <1>10, <2>1, Again
<1> QED  BY <1>5, <1>9, <1>10

-----------------------------------------------------------------------------
(* The steps.                                                               *)

Normal == Own(stack, Top, Top.want) /\ Len(stack) = Top.base + Top.want

\* The frame that runs.
LEMMA TopIs ==
  ASSUME Quiet, Normal
  PROVE  /\ stack \in Seq(Kinds) /\ InOrder(stack, frames) /\ Alone(stack)
         /\ frames \in Seq(Frame) /\ frames # <<>>
         /\ Len(frames) \in 1 .. Len(frames) /\ Top = frames[Len(frames)]
         /\ Top \in Frame /\ Top.base \in Nat /\ Top.want \in Nat
         /\ Len(stack) \in Nat /\ Len(stack) = Top.base + Top.want
         /\ \A i \in Top.base .. Len(stack) : i > 0 => stack[i] = "value"
<1>1. stack \in Seq(Kinds) /\ InOrder(stack, frames) /\ Alone(stack)  BY DEF Quiet
<1>2. /\ frames \in Seq(Frame) /\ Len(frames) \in Nat /\ Len(frames) > 0
      /\ Top = frames[Len(frames)]
  BY <1>1, Unfold DEF Top
<1>3. Top \in Frame  BY <1>2
<1>4. Top.base \in Nat /\ Top.want \in Nat  BY <1>3 DEF Frame
<1>5. Len(stack) \in Nat  BY <1>1, LenProperties
<1>6. \A i \in Top.base .. Len(stack) : i > 0 => stack[i] = "value"
  BY DEF Normal, Own
<1> QED  BY <1>1, <1>2, <1>3, <1>4, <1>5, <1>6 DEF Normal, InOrder

\* It may want more or fewer when the stack is the same where it began.
LEMMA Rewanted ==
  ASSUME Quiet, Normal, NEW want \in Nat, NEW stk \in Seq(Kinds),
         Same(stack, stk, Top.base)
  PROVE  /\ InOrder(stk, Wants(want)) /\ Wants(want) \in Seq(Frame)
         /\ Wants(want)[Len(Wants(want))] \in Frame
         /\ Wants(want)[Len(Wants(want))].base = Top.base
         /\ Wants(want)[Len(Wants(want))].want = want
<1>1. /\ stack \in Seq(Kinds) /\ InOrder(stack, frames)
      /\ frames \in Seq(Frame) /\ frames # <<>>
      /\ Len(frames) \in 1 .. Len(frames) /\ Top = frames[Len(frames)]
  BY TopIs
<1>2. Begins(Wants(want), Len(frames), want)  BY <1>1, WantsBegin
<1>3. InOrder(stk, Wants(want))  BY <1>1, <1>2, Kept
<1>4. /\ Wants(want)[Len(Wants(want))] \in Frame
      /\ Wants(want)[Len(Wants(want))].base = Top.base
      /\ Wants(want)[Len(Wants(want))].want = want
  BY <1>1, <1>2, LastOf
<1> QED  BY <1>2, <1>3, <1>4 DEF Begins

\* A new slot above m others, no fewer than it began with.
LEMMA Placed ==
  ASSUME Quiet, Normal, NEW m \in Nat, Top.base <= m, m <= Len(stack),
         NEW kind \in Kinds, NEW stk, IsAbove(stk, stack, m, kind)
  PROVE  /\ stk \in Seq(Kinds) /\ Len(stk) = m + 1 /\ Alone(stk)
         /\ Same(stack, stk, Top.base) /\ stk[m + 1] = kind
         /\ \A i \in Top.base .. m : i > 0 => stk[i] = "value"
<1>1. /\ stack \in Seq(Kinds) /\ Alone(stack) /\ Len(stack) \in Nat /\ Top.base \in Nat
      /\ \A i \in Top.base .. Len(stack) : i > 0 => stack[i] = "value"
  BY TopIs
<1>2. stk \in Seq(Kinds) /\ Len(stk) = m + 1 /\ stk[m + 1] = kind  BY DEF IsAbove
<1>3. m = 0 \/ stack[m] \notin Continuations
  <2>1. CASE m > 0
    <3>1. stack[m] = "value"  BY <1>1, <2>1
    <3> QED  BY <3>1 DEF Continuations
  <2> QED  BY <2>1
<1>4. Alone(stk)  BY <1>1, <1>3, AloneAbove
<1>5. Same(stack, stk, Top.base)  BY <1>1, SameAbove
<1>6. ASSUME NEW i \in Top.base .. m, i > 0 PROVE stk[i] = "value"
  <2>1. i \in 1 .. m /\ stack[i] = "value"  BY <1>1, <1>6
  <2> QED  BY <2>1 DEF IsAbove
<1> QED  BY <1>2, <1>4, <1>5, <1>6

LEMMA WaitsNow ==
  ASSUME NEW stk \in Seq(Kinds), NEW fr \in Frame, NEW m, m = fr.base + fr.want - 1,
         fr.want > 0, m <= Len(stk),
         \A i \in fr.base .. m : i > 0 => stk[i] = "value"
  PROVE  Waits(stk, fr, m)
<1>1. fr.base \in Nat /\ fr.want \in Nat /\ Len(stk) \in Nat  BY LenProperties DEF Frame
<1>2. fr.base + (fr.want - 1) = m  BY <1>1
<1>3. \A i \in fr.base + fr.want .. m : FALSE  BY <1>1
<1>4. Own(stk, fr, fr.want - 1)  BY <1>2 DEF Own
<1>5. fr.base + fr.want - 1 <= m  BY <1>1
<1> QED  BY <1>3, <1>4, <1>5 DEF Waits

LEMMA NormalNow ==
  ASSUME stack' \in Seq(Kinds), InOrder(stack', frames'), Alone(stack'),
         NEW fr \in Frame, fr = frames'[Len(frames')],
         Len(stack') = fr.base + fr.want,
         \A i \in fr.base .. Len(stack') : i > 0 => stack'[i] = "value",
         check' = FALSE, halted' \in BOOLEAN
  PROVE  IInv'
<1>1. Top' = fr  BY DEF Top
<1>2. Len(stack') \in Nat  BY LenProperties
<1>3. Own(stack', Top', Top'.want)  BY <1>1, <1>2 DEF Own
<1> QED  BY <1>1, <1>3 DEF IInv

\* A frame above one that waits for it.
LEMMA FrameNow ==
  ASSUME stack' \in Seq(Kinds), Alone(stack'), NEW frs, InOrder(stack', frs),
         NEW sptr \in Nat, NEW base \in {sptr, sptr + 1}, Len(stack') = base,
         base > 0 => stack'[base] = "value",
         Waits(stack', frs[Len(frs)], sptr),
         base = sptr => sptr = frs[Len(frs)].base + frs[Len(frs)].want - 1,
         frames' = Append(frs, Began(sptr, base)), check' = FALSE, halted' \in BOOLEAN
  PROVE  IInv'
<1> DEFINE new == Began(sptr, base)
<1>1. new \in Frame /\ new.sptr = sptr /\ new.base = base /\ new.want = 0 /\ base \in Nat
  BY DEF Began, Frame
<1>2. frames' = Append(frs, new)  OBVIOUS
<1> HIDE DEF new
<1>3. Follows(stack', frs[Len(frs)], new)  BY <1>1 DEF Follows
<1>4. \A i \in new.base .. Len(stack') : i > 0 => stack'[i] = "value"  BY <1>1
<1>5. Own(stack', new, 0)  BY <1>1, <1>4 DEF Own
<1>6. InOrder(stack', frames')  BY <1>1, <1>2, <1>3, <1>5, Pushed
<1>7. new = frames'[Len(frames')]
  <2>1. frs \in Seq(Frame) /\ Len(frs) \in Nat  BY Unfold
  <2> QED  BY <1>1, <1>2, <2>1, Appends
<1>8. Len(stack') = new.base + new.want  BY <1>1
<1> QED  BY <1>1, <1>4, <1>6, <1>7, <1>8, NormalNow

LEMMA StepPushValue ==
  ASSUME Quiet, Normal, PushValue, halted \in BOOLEAN PROVE IInv'
<1>1. /\ stack \in Seq(Kinds) /\ Len(stack) \in Nat /\ Top.base \in Nat /\ Top.want \in Nat
      /\ Len(stack) = Top.base + Top.want
  BY TopIs
<1>2. /\ stack' = Append(stack, "value") /\ frames' = Wants(Top.want + 1)
      /\ check' = FALSE /\ halted' \in BOOLEAN
  BY DEF PushValue, Running
<1>3. "value" \in Kinds  BY DEF Kinds
<1>4. IsAbove(stack', stack, Len(stack), "value")  BY <1>1, <1>2, <1>3, Appends DEF IsAbove
<1>5. /\ stack' \in Seq(Kinds) /\ Len(stack') = Len(stack) + 1 /\ Alone(stack')
      /\ Same(stack, stack', Top.base) /\ stack'[Len(stack) + 1] = "value"
      /\ \A i \in Top.base .. Len(stack) : i > 0 => stack'[i] = "value"
  <2>1. Top.base <= Len(stack) /\ Len(stack) <= Len(stack)  BY <1>1
  <2> QED  BY <1>1, <1>3, <1>4, <2>1, Placed
<1>6. Top.want + 1 \in Nat  BY <1>1
<1> DEFINE fr == frames'[Len(frames')]
<1>7. /\ InOrder(stack', frames') /\ fr \in Frame /\ fr.base = Top.base
      /\ fr.want = Top.want + 1
  BY <1>2, <1>5, <1>6, Rewanted
<1> HIDE DEF fr
<1>8. Len(stack') = fr.base + fr.want  BY <1>1, <1>5, <1>7
<1>9. \A i \in fr.base .. Len(stack') : i > 0 => stack'[i] = "value"
  BY <1>1, <1>5, <1>7
<1>10. fr = frames'[Len(frames')]  BY DEF fr
<1> QED  BY <1>2, <1>5, <1>7, <1>8, <1>9, <1>10, NormalNow

LEMMA StepDropValues ==
  ASSUME Quiet, Normal, NEW n \in Nat, DropValues(n), halted \in BOOLEAN PROVE IInv'
<1>1. /\ stack \in Seq(Kinds) /\ Len(stack) \in Nat /\ Top.base \in Nat /\ Top.want \in Nat
      /\ Len(stack) = Top.base + Top.want /\ Alone(stack)
      /\ \A i \in Top.base .. Len(stack) : i > 0 => stack[i] = "value"
  BY TopIs
<1> DEFINE m == Len(stack) - n
<1>2. /\ stack' = SubSeq(stack, 1, m) /\ frames' = Wants(Top.want - n)
      /\ check' = FALSE /\ halted' \in BOOLEAN /\ n <= Top.want
  BY DEF DropValues, Running
<1>3. m \in Nat /\ m <= Len(stack) /\ Top.base <= m /\ m = Top.base + (Top.want - n)
  BY <1>1, <1>2
<1> HIDE DEF m
<1>4. stack' \in Seq(Kinds) /\ Len(stack') = m /\ \A i \in 1 .. m : stack'[i] = stack[i]
  BY <1>1, <1>2, <1>3, Cuts
<1>5. Alone(stack')
  <2>1. DOMAIN stack = 1 .. Len(stack) /\ DOMAIN stack' = 1 .. m
    BY <1>1, <1>4, LenProperties
  <2>2. ASSUME NEW i \in DOMAIN stack', stack'[i] = "passing", i - 1 \in DOMAIN stack'
        PROVE  stack'[i - 1] \notin Continuations
    <3>1. /\ i \in DOMAIN stack /\ i - 1 \in DOMAIN stack
          /\ stack[i] = "passing" /\ stack'[i - 1] = stack[i - 1]
      BY <1>1, <1>3, <1>4, <2>1, <2>2
    <3> QED  BY <1>1, <3>1 DEF Alone
  <2> QED  BY <2>2 DEF Alone
<1>6. Same(stack, stack', Top.base)  BY <1>1, <1>3, <1>4 DEF Same
<1>7. Top.want - n \in Nat  BY <1>1, <1>2
<1> DEFINE fr == frames'[Len(frames')]
<1>8. /\ InOrder(stack', frames') /\ fr \in Frame /\ fr.base = Top.base
      /\ fr.want = Top.want - n
  BY <1>2, <1>4, <1>6, <1>7, Rewanted
<1> HIDE DEF fr
<1>9. Len(stack') = fr.base + fr.want  BY <1>3, <1>4, <1>8
<1>10. ASSUME NEW i \in fr.base .. Len(stack'), i > 0 PROVE stack'[i] = "value"
  <2>1. i \in 1 .. m /\ i \in Top.base .. Len(stack)  BY <1>1, <1>3, <1>4, <1>8, <1>10
  <2> QED  BY <1>1, <1>4, <1>10, <2>1
<1>11. fr = frames'[Len(frames')]  BY DEF fr
<1> QED  BY <1>2, <1>4, <1>5, <1>8, <1>9, <1>10, <1>11, NormalNow

\* The frame that calls has its arguments, and the function, taken from it: what it
\* has left ends where the slot begins that the result comes to.
LEMMA Calling ==
  ASSUME Quiet, Normal, NEW n \in Nat, n < Top.want, NEW kind \in Kinds,
         NEW sptr, sptr = Len(stack) - n - 1, stack' = Above(sptr, kind),
         NEW frs, frs = Wants(Top.want - n)
  PROVE  /\ sptr \in Nat /\ stack' \in Seq(Kinds) /\ Len(stack') = sptr + 1
         /\ stack'[sptr + 1] = kind /\ Alone(stack') /\ InOrder(stack', frs)
         /\ Waits(stack', frs[Len(frs)], sptr)
<1>1. /\ stack \in Seq(Kinds) /\ Len(stack) \in Nat /\ Top.base \in Nat /\ Top.want \in Nat
      /\ Len(stack) = Top.base + Top.want
  BY TopIs
<1>2. /\ sptr \in Nat /\ Top.base <= sptr /\ sptr <= Len(stack)
      /\ sptr = Top.base + (Top.want - n) - 1 /\ Top.want - n \in Nat /\ Top.want - n > 0
  <2>1. Top.want - n \in Nat /\ Top.want - n > 0  BY <1>1
  <2>2. sptr = Top.base + (Top.want - n) - 1  BY <1>1
  <2>3. sptr \in Nat /\ Top.base <= sptr  BY <1>1, <2>1, <2>2
  <2>4. sptr <= Len(stack)
    <3>1. \A l \in Nat : l - n - 1 <= l  OBVIOUS
    <3> QED  BY <1>1, <3>1, SMTT(30)
  <2> QED  BY <2>1, <2>2, <2>3, <2>4
<1>3. IsAbove(stack', stack, sptr, kind)  BY <1>1, <1>2, AboveIs
<1>4. /\ stack' \in Seq(Kinds) /\ Len(stack') = sptr + 1 /\ Alone(stack')
      /\ Same(stack, stack', Top.base) /\ stack'[sptr + 1] = kind
      /\ \A i \in Top.base .. sptr : i > 0 => stack'[i] = "value"
  <2>1. sptr \in Nat /\ Top.base <= sptr /\ sptr <= Len(stack)  BY <1>2
  <2> QED  BY <1>3, <2>1, Placed, SMTT(30)
<1> DEFINE fr == frs[Len(frs)]
<1>5. /\ InOrder(stack', frs) /\ fr \in Frame /\ fr.base = Top.base
      /\ fr.want = Top.want - n
  BY <1>2, <1>4, Rewanted
<1> HIDE DEF fr
<1>6. sptr = fr.base + fr.want - 1 /\ fr.want > 0 /\ sptr <= Len(stack')
  BY <1>2, <1>4, <1>5
<1>7. \A i \in fr.base .. sptr : i > 0 => stack'[i] = "value"  BY <1>4, <1>5
<1>8. Waits(stack', fr, sptr)  BY <1>4, <1>5, <1>6, <1>7, WaitsNow
<1> QED  BY <1>2, <1>4, <1>5, <1>8 DEF fr

LEMMA StepCall ==
  ASSUME Quiet, Normal, NEW n \in Nat, Call(n), halted \in BOOLEAN PROVE IInv'
<1> DEFINE sptr == Len(stack) - n - 1
           frs == Wants(Top.want - n)
<1>1. /\ stack' = Above(sptr, "value") /\ frames' = Append(frs, Began(sptr, sptr + 1))
      /\ check' = FALSE /\ halted' \in BOOLEAN /\ n < Top.want
  BY DEF Call, Running
<1>2. "value" \in Kinds  BY DEF Kinds
<1>3. /\ sptr \in Nat /\ stack' \in Seq(Kinds) /\ Len(stack') = sptr + 1
      /\ stack'[sptr + 1] = "value" /\ Alone(stack') /\ InOrder(stack', frs)
      /\ Waits(stack', frs[Len(frs)], sptr)
  BY <1>1, <1>2, Calling
<1> HIDE DEF sptr, frs
<1>4. sptr + 1 \in {sptr, sptr + 1} /\ sptr + 1 # sptr  BY <1>3
<1> QED  BY <1>1, <1>3, <1>4, FrameNow

LEMMA StepCallC ==
  ASSUME Quiet, Normal, NEW n \in Nat, NEW kind \in Kinds, CallC(n, kind),
         halted \in BOOLEAN
  PROVE  IInv'
<1> DEFINE sptr == Len(stack) - n - 1
<1>1. /\ stack' = Above(sptr, kind) /\ frames' = Wants(Top.want - n)
      /\ check' = TRUE /\ halted' \in BOOLEAN /\ n < Top.want
  BY DEF CallC
<1>2. /\ sptr \in Nat /\ stack' \in Seq(Kinds) /\ Len(stack') = sptr + 1
      /\ Alone(stack') /\ InOrder(stack', frames')
      /\ Waits(stack', frames'[Len(frames')], sptr)
  BY <1>1, Calling
<1> HIDE DEF sptr
<1>3. Top' = frames'[Len(frames')]  BY DEF Top
<1>4. Len(stack') > 0 /\ Len(stack') - 1 = sptr  BY <1>2
<1>5. Waits(stack', Top', Len(stack') - 1)  BY <1>2, <1>3, <1>4
<1> QED  BY <1>1, <1>2, <1>4, <1>5 DEF IInv

LEMMA StepLoadModule ==
  ASSUME Quiet, Normal, LoadModule, halted \in BOOLEAN PROVE IInv'
<1>1. /\ stack \in Seq(Kinds) /\ Len(stack) \in Nat /\ Top.base \in Nat /\ Top.want \in Nat
      /\ Len(stack) = Top.base + Top.want /\ Alone(stack)
      /\ \A i \in Top.base .. Len(stack) : i > 0 => stack[i] = "value"
  BY TopIs
<1> DEFINE frs == Wants(Top.want + 1)
           sptr == Len(stack)
<1>2. /\ stack' = stack /\ frames' = Append(frs, Began(sptr, sptr))
      /\ check' = FALSE /\ halted' \in BOOLEAN
  BY DEF LoadModule, Running
<1>3. Top.want + 1 \in Nat /\ Same(stack, stack, Top.base)  BY <1>1 DEF Same
<1> DEFINE fr == frs[Len(frs)]
<1>4. /\ InOrder(stack, frs) /\ fr \in Frame /\ fr.base = Top.base
      /\ fr.want = Top.want + 1
  BY <1>1, <1>3, Rewanted
<1> HIDE DEF fr, frs
<1>5. sptr = fr.base + fr.want - 1 /\ fr.want > 0 /\ sptr <= Len(stack)  BY <1>1, <1>4
<1>6. \A i \in fr.base .. sptr : i > 0 => stack[i] = "value"  BY <1>1, <1>4
<1>7. Waits(stack, fr, sptr)  BY <1>1, <1>4, <1>5, <1>6, WaitsNow
<1>8. sptr \in Nat /\ sptr \in {sptr, sptr + 1}  BY <1>1
<1>9. sptr > 0 => stack'[sptr] = "value"  BY <1>1, <1>2
<1>10. Waits(stack', frs[Len(frs)], sptr) /\ sptr = frs[Len(frs)].base + frs[Len(frs)].want - 1
  BY <1>2, <1>5, <1>7 DEF fr
<1>11. stack' \in Seq(Kinds) /\ Alone(stack') /\ InOrder(stack', frs) /\ Len(stack') = sptr
  BY <1>1, <1>2, <1>4
<1> HIDE DEF sptr
<1> QED  BY <1>2, <1>8, <1>9, <1>10, <1>11, FrameNow

\* The frame below the one that runs waits for it.
LEMMA Below ==
  ASSUME stack \in Seq(Kinds), InOrder(stack, frames), Len(frames) > 1
  PROVE  /\ Len(frames) - 1 \in 1 .. Len(frames) /\ Top.sptr \in Nat
         /\ frames[Len(frames) - 1] \in Frame
         /\ Follows(stack, frames[Len(frames) - 1], Top)
         /\ Waits(stack, frames[Len(frames) - 1], Top.sptr)
<1>1. Len(frames) \in Nat  BY Unfold
<1> DEFINE k == Len(frames) - 1
<1>2. /\ k \in 1 .. Len(frames) /\ k + 1 \in 1 .. Len(frames) /\ k + 1 = Len(frames)
  BY <1>1
<1> HIDE DEF k
<1>3. /\ Follows(stack, frames[k], frames[k + 1]) /\ frames[k] \in Frame
      /\ frames[k + 1].sptr \in Nat
  BY <1>2, Unfold
<1>4. Top = frames[k + 1]  BY <1>2 DEF Top
<1> QED  BY <1>2, <1>3, <1>4 DEF Follows, k

LEMMA StepModRet ==
  ASSUME Quiet, Normal, ModRet, halted \in BOOLEAN PROVE IInv'
<1>1. stack \in Seq(Kinds) /\ InOrder(stack, frames)  BY TopIs
<1> DEFINE k == Len(frames) - 1
<1>2. /\ stack' = Above(Top.sptr, "value") /\ frames' = FramesUpTo(k)
      /\ check' = FALSE /\ halted' \in BOOLEAN
      /\ Len(frames) > 1 /\ Top.base = Top.sptr
  BY DEF ModRet, Running, IsModule, Top
<1>3. /\ k \in 1 .. Len(frames) /\ Follows(stack, frames[k], Top)
      /\ Waits(stack, frames[k], Top.sptr)
  BY <1>1, <1>2, Below
<1> HIDE DEF k
<1>4. Top.sptr = frames[k].base + frames[k].want - 1  BY <1>2, <1>3 DEF Follows
<1> QED  BY <1>2, <1>3, <1>4, Lands

LEMMA StepAssertFails ==
  ASSUME Quiet, Normal, AssertFails, halted \in BOOLEAN PROVE IInv'
<1>1. stack \in Seq(Kinds) /\ InOrder(stack, frames)  BY TopIs
<1> DEFINE k == Len(frames) - 1
<1>2. /\ stack' = Above(Top.sptr, "value") /\ frames' = FramesUpTo(k)
      /\ check' = FALSE /\ halted' \in BOOLEAN
      /\ Len(frames) > 1 /\ ~IsContinuation(Top.sptr)
  BY DEF AssertFails, Running
<1>3. /\ k \in 1 .. Len(frames) /\ frames[k] \in Frame /\ Top.sptr \in Nat
      /\ Waits(stack, frames[k], Top.sptr)
  BY <1>1, <1>2, Below
<1> HIDE DEF k
<1>4. Top.sptr = frames[k].base + frames[k].want - 1
  <2>1. /\ frames[k].base \in Nat /\ frames[k].want \in Nat /\ frames[k].want > 0
        /\ frames[k].base + frames[k].want - 1 <= Top.sptr
        /\ Top.sptr <= Len(stack) /\ DOMAIN stack = 1 .. Len(stack) /\ Len(stack) \in Nat
        /\ \A i \in frames[k].base + frames[k].want .. Top.sptr : stack[i] \in Continuations
    BY <1>1, <1>3, WaitsAt, LenProperties
  <2>2. SUFFICES ASSUME Top.sptr # frames[k].base + frames[k].want - 1 PROVE FALSE
    OBVIOUS
  <2>3. /\ Top.sptr \in frames[k].base + frames[k].want .. Top.sptr
        /\ Top.sptr \in 1 .. Len(stack)
    <3>1. \A b, w, x, l \in Nat : w > 0 /\ b + w - 1 <= x /\ x # b + w - 1 /\ x <= l =>
            x \in b + w .. x /\ x \in 1 .. l
      OBVIOUS
    <3> QED  BY <1>3, <2>1, <2>2, <3>1
  <2> QED  BY <1>2, <2>1, <2>3 DEF IsContinuation
<1> QED  BY <1>2, <1>3, <1>4, Lands

LEMMA Leaves ==
  ASSUME Quiet, Leave, halted' \in BOOLEAN PROVE IInv'
<1>1. stack \in Seq(Kinds) /\ InOrder(stack, frames)  BY DEF Quiet
<1> DEFINE k == Len(frames) - 1
           top == Top.sptr + 1
<1>2. Len(frames) > 1 /\ AfterFuncReturn(k, top)  BY DEF Leave
<1>3. k \in 1 .. Len(frames) /\ Top.sptr \in Nat /\ Waits(stack, frames[k], Top.sptr)
  BY <1>1, <1>2, Below
<1>4. top \in Nat /\ top > 0 /\ top - 1 = Top.sptr  BY <1>3
<1> HIDE DEF k, top
<1>5. Waits(stack, frames[k], top - 1)  BY <1>3, <1>4
<1> QED  BY <1>2, <1>3, <1>4, <1>5, Returns

LEMMA StepCheckRetval ==
  ASSUME Quiet, CheckRetval, Len(stack) > 0, Waits(stack, Top, Len(stack) - 1),
         halted \in BOOLEAN
  PROVE  IInv'
<1>1. stack \in Seq(Kinds) /\ InOrder(stack, frames)  BY DEF Quiet
<1> DEFINE top == Len(stack)
           n == Len(frames)
<1>2. top \in Nat /\ top > 0 /\ n \in 1 .. Len(frames) /\ Top = frames[n]
  BY <1>1, Unfold, LenProperties DEF Top
<1>3. halted' \in BOOLEAN
  BY DEF CheckRetval, Leave, AfterFuncReturn, Settles, CallsAgain, CallsFunction,
         CallsCFunction
<1>4. \/ Leave
      \/ stack[top] \in Continuations /\ CallsAgain(n, top)
      \/ AfterFuncReturn(n, top)
  BY DEF CheckRetval
<1>5. Waits(stack, frames[n], top - 1)  BY <1>2
<1>6. ASSUME stack[top] \in Continuations PROVE Waits(stack, frames[n], top)
  <2>1. frames[n] \in Frame  BY <1>1, <1>2, Unfold
  <2>2. /\ frames[n].base \in Nat /\ frames[n].want \in Nat /\ frames[n].want > 0
        /\ frames[n].base + frames[n].want - 1 <= top - 1
        /\ \A i \in frames[n].base + frames[n].want .. top - 1 : stack[i] \in Continuations
    BY <1>1, <1>5, <2>1, WaitsAt
  <2>3. ASSUME NEW i \in frames[n].base + frames[n].want .. top
        PROVE  stack[i] \in Continuations
    <3>1. i = top \/ i \in frames[n].base + frames[n].want .. top - 1
      BY <1>2, <2>2, <2>3
    <3> QED  BY <1>6, <2>2, <3>1
  <2>4. frames[n].base + frames[n].want - 1 <= top /\ top <= Len(stack)  BY <1>2, <2>2
  <2> QED  BY <1>5, <2>3, <2>4 DEF Waits
<1> HIDE DEF top, n
<1>7. CASE Leave  BY <1>3, <1>7, Leaves
<1>8. CASE stack[top] \in Continuations /\ CallsAgain(n, top)
  BY <1>2, <1>3, <1>6, <1>8, Again
<1>9. CASE AfterFuncReturn(n, top)  BY <1>2, <1>3, <1>5, <1>9, Returns
<1> QED  BY <1>4, <1>7, <1>8, <1>9

LEMMA InitProtocol == Init => IInv
<1> SUFFICES ASSUME Init PROVE IInv  OBVIOUS
<1>1. stack = <<>> /\ frames = <<Began(0, 0)>> /\ check = FALSE /\ halted = FALSE
  BY DEF Init
<1>2. /\ Began(0, 0) \in Frame /\ Began(0, 0).sptr = 0 /\ Began(0, 0).base = 0
      /\ Began(0, 0).want = 0
  BY DEF Began, Frame
<1>3. /\ frames \in Seq(Frame) /\ Len(frames) = 1 /\ frames[1] = Began(0, 0)
      /\ frames # <<>> /\ DOMAIN frames = {1}
  BY <1>1, <1>2
<1>4. stack \in Seq(Kinds) /\ Len(stack) = 0 /\ DOMAIN stack = {}  BY <1>1
<1>5. Own(stack, frames[1], 0)
  <2>1. \A i \in 0 .. 0 + 0 : ~(i > 0)  OBVIOUS
  <2> QED  BY <1>2, <1>3, <1>4, <2>1 DEF Own
<1>6. InOrder(stack, frames)
  <2>1. \A f \in DOMAIN frames : f = 1 /\ f + 1 \notin DOMAIN frames  BY <1>3
  <2>2. \A f \in DOMAIN frames : frames[f].base \in {frames[f].sptr, frames[f].sptr + 1}
    BY <1>2, <1>3
  <2>3. \A f, g \in DOMAIN frames : f <= g => frames[f].base <= frames[g].base
    BY <1>2, <1>3
  <2> QED  BY <1>2, <1>3, <1>5, <2>1, <2>2, <2>3 DEF InOrder
<1>7. Alone(stack)  BY <1>4 DEF Alone
<1>8. Top.base = 0 /\ Top.want = 0 /\ Top = frames[1]  BY <1>2, <1>3 DEF Top
<1>9. Own(stack, Top, Top.want) /\ Len(stack) = Top.base + Top.want  BY <1>4, <1>5, <1>8
<1> QED  BY <1>1, <1>4, <1>6, <1>7, <1>9 DEF IInv

LEMMA StepProtocol == IInv /\ [Next]_vars => IInv'
<1> SUFFICES ASSUME IInv, [Next]_vars PROVE IInv'  OBVIOUS
<1>1. stack \in Seq(Kinds) /\ check \in BOOLEAN /\ halted \in BOOLEAN  BY DEF IInv
<1>2. CASE UNCHANGED vars
  <2>1. stack' = stack /\ frames' = frames /\ check' = check /\ halted' = halted
    BY <1>2 DEF vars
  <2>2. Top' = Top  BY <2>1 DEF Top
  <2> QED  BY <2>1, <2>2 DEF IInv
<1>3. CASE Stop
  <2>1. stack' = <<>> /\ check' = FALSE /\ halted' = TRUE  BY <1>3 DEF Stop
  <2>2. stack' \in Seq(Kinds)  BY <2>1
  <2> QED  BY <2>1, <2>2 DEF IInv
<1>4. ASSUME ~halted PROVE Quiet  BY <1>4 DEF IInv, Quiet
<1>5. ASSUME Running PROVE Quiet /\ Normal  BY <1>4, <1>5 DEF Running, IInv, Normal
<1>6. CASE PushValue  BY <1>1, <1>5, <1>6, StepPushValue DEF PushValue
<1>7. CASE LoadModule  BY <1>1, <1>5, <1>7, StepLoadModule DEF LoadModule
<1>8. CASE ModRet  BY <1>1, <1>5, <1>8, StepModRet DEF ModRet
<1>9. CASE AssertFails  BY <1>1, <1>5, <1>9, StepAssertFails DEF AssertFails
<1>10. CASE Ret
  <2>1. Running /\ Leave  BY <1>10 DEF Ret
  <2>2. halted' \in BOOLEAN
    BY <1>1, <2>1 DEF Leave, AfterFuncReturn, Settles, CallsAgain, CallsFunction,
       CallsCFunction
  <2> QED  BY <1>5, <2>1, <2>2, Leaves
<1>11. CASE CheckRetval
  <2>1. ~halted /\ check  BY <1>11 DEF CheckRetval
  <2>2. Len(stack) > 0 /\ Waits(stack, Top, Len(stack) - 1)  BY <2>1 DEF IInv
  <2> QED  BY <1>1, <1>4, <1>11, <2>1, <2>2, StepCheckRetval
<1>12. ASSUME NEW n \in 0 .. Len(stack), DropValues(n) PROVE IInv'
  <2>1. n \in Nat /\ Running  BY <1>1, <1>12, LenProperties DEF DropValues
  <2> QED  BY <1>1, <1>5, <1>12, <2>1, StepDropValues
<1>13. ASSUME NEW n \in 0 .. Len(stack), Call(n) PROVE IInv'
  <2>1. n \in Nat /\ Running  BY <1>1, <1>13, LenProperties DEF Call
  <2> QED  BY <1>1, <1>5, <1>13, <2>1, StepCall
<1>14. ASSUME NEW n \in 0 .. Len(stack), NEW kind \in Kinds \ {"value"}, CallC(n, kind)
       PROVE  IInv'
  <2>1. n \in Nat /\ Running  BY <1>1, <1>14, LenProperties DEF CallC
  <2> QED  BY <1>1, <1>5, <1>14, <2>1, StepCallC
<1> QED
  BY <1>2, <1>3, <1>6, <1>7, <1>8, <1>9, <1>10, <1>11, <1>12, <1>13, <1>14 DEF Next

\* Frames and continuations stay in order whatever is called and whatever it answers:
\* every frame's own values are below what it waits for, and between the two there are
\* continuations only (vm.c:429-582, 626-653, 659-812).
THEOREM InOrderAlways == Spec => []IInv
<1>1. Init => IInv  BY InitProtocol
<1>2. IInv /\ [Next]_vars => IInv'  BY StepProtocol
<1> QED  BY <1>1, <1>2, PTL DEF Spec

LEMMA BalanceFollows == IInv => StackBalance
<1> SUFFICES ASSUME IInv, ~halted PROVE StackBalance  BY DEF StackBalance
<1> DEFINE last == Len(frames)
<1>1. /\ stack \in Seq(Kinds) /\ InOrder(stack, frames) /\ check \in BOOLEAN  BY DEF IInv
<1>2. /\ last \in Nat /\ last > 0 /\ last \in 1 .. Len(frames) /\ Top = frames[last]
      /\ DOMAIN stack = 1 .. Len(stack) /\ Len(stack) \in Nat
  BY <1>1, Unfold, LenProperties DEF Top
\* Between what a frame has of its own and what it waits for.
<1>3. ASSUME NEW f \in 1 .. last, NEW sptr \in Nat, Waits(stack, frames[f], sptr)
      PROVE  Height(f) - 1 <= sptr /\ Resumed(Height(f), sptr + 1)
  <2>1. frames[f] \in Frame  BY <1>1, <1>3, Unfold
  <2>2. /\ frames[f].base \in Nat /\ frames[f].want \in Nat /\ frames[f].want > 0
        /\ frames[f].base + frames[f].want - 1 <= sptr /\ sptr <= Len(stack)
        /\ \A i \in frames[f].base + frames[f].want .. sptr : stack[i] \in Continuations
    BY <1>1, <1>3, <2>1, WaitsAt
  <2>3. Height(f) = frames[f].base + frames[f].want  BY DEF Height
  <2>4. ASSUME NEW i \in Height(f) .. sptr + 1 - 1 PROVE IsContinuation(i)
    <3>1. i \in frames[f].base + frames[f].want .. sptr /\ i \in 1 .. Len(stack)
      BY <1>2, <1>3, <2>2, <2>3, <2>4
    <3> QED  BY <1>2, <2>2, <3>1 DEF IsContinuation
  <2> QED  BY <2>2, <2>3, <2>4 DEF Resumed
<1>4. ASSUME NEW f \in 1 .. last - 1
      PROVE  /\ Height(f) - 1 <= frames[f + 1].sptr
             /\ Resumed(Height(f), frames[f + 1].sptr + 1)
  <2>1. f \in 1 .. last /\ f \in 1 .. Len(frames) /\ f + 1 \in 1 .. Len(frames)
    BY <1>2, <1>4
  <2>2. Waits(stack, frames[f], frames[f + 1].sptr) /\ frames[f + 1].sptr \in Nat
    BY <1>1, <2>1, Unfold DEF Follows
  <2> QED  BY <1>3, <2>1, <2>2
<1>5. ASSUME check
      PROVE  Len(stack) >= Height(last) /\ Resumed(Height(last), Len(stack))
  <2>1. Len(stack) > 0 /\ Waits(stack, frames[last], Len(stack) - 1)
    BY <1>2, <1>5 DEF IInv
  <2>2. Len(stack) - 1 \in Nat /\ Len(stack) - 1 + 1 = Len(stack)  BY <1>2, <2>1
  <2>3. /\ Height(last) - 1 <= Len(stack) - 1
        /\ Resumed(Height(last), Len(stack) - 1 + 1)
    BY <1>2, <1>3, <2>1, <2>2
  <2>4. Height(last) \in Nat
    <3>1. frames[last].base \in Nat /\ frames[last].want \in Nat  BY <1>1, <1>2, Unfold
    <3> QED  BY <3>1 DEF Height
  <2> QED  BY <1>2, <2>2, <2>3, <2>4
<1>6. ASSUME ~check PROVE Len(stack) = Height(last)
  BY <1>2, <1>6 DEF IInv, Height
<1> QED  BY <1>4, <1>5, <1>6 DEF StackBalance

\* Every frame always has exactly the values its code says on the stack, for every
\* program, every depth of calls and all C functions and continuations (vm.c:429-582,
\* 659-812).
THEOREM Balance == Spec => []StackBalance
<1>1. IInv => StackBalance  BY BalanceFollows
<1> QED  BY <1>1, InOrderAlways, PTL
=============================================================================
