-------------------------------- MODULE Calls --------------------------------
(***************************************************************************)
(* The protocol of calls, returns and continuations in lib/vm/vm.c, for any *)
(* program and any C functions.  A slot of the value stack is of a kind; a  *)
(* frame knows where it began, and the code it runs knows how many values   *)
(* of its own it has there.  An instruction takes some of them and leaves   *)
(* some.  What a return sets off (after_func_return calls itself until      *)
(* nothing is left to resume) is said by where it ends.                     *)
(***************************************************************************)
EXTENDS Integers, Sequences

VARIABLES stack,     \* the kind of what is in each slot
          frames,    \* the frames, that of the program first
          check,     \* need_check_retval
          halted

vars == <<stack, frames, check, halted>>

\* The continuation of if or match hands on what its function returned, without
\* a look at what is below it; those of the other functions answer for themselves.
Continuations == {"passing", "answering"}
Kinds == Continuations \cup {"value", "return"}

\* A frame began above slot sptr; its own values begin above slot base.  It is to
\* have want of them before its next instruction, the result of the call it waits
\* for included.
Began(sptr, base) == [sptr |-> sptr, base |-> base, want |-> 0]

Running == ~halted /\ ~check
Top == frames[Len(frames)]
Wants(n) == [frames EXCEPT ![Len(frames)].want = n]
FramesUpTo(k) == SubSeq(frames, 1, k)

\* The slots up to the m-th, and one more.
Above(m, kind) == Append(SubSeq(stack, 1, m), kind)

IsContinuation(i) == i \in DOMAIN stack /\ stack[i] \in Continuations

-----------------------------------------------------------------------------
Init ==
  /\ stack = <<>> /\ frames = <<Began(0, 0)>>
  /\ check = FALSE /\ halted = FALSE

(* Instructions.  A C function that returns a value is one of these. *)

PushValue ==
  /\ Running
  /\ stack' = Append(stack, "value") /\ frames' = Wants(Top.want + 1)
  /\ UNCHANGED <<check, halted>>

DropValues(n) ==
  /\ Running /\ n <= Top.want
  /\ stack' = SubSeq(stack, 1, Len(stack) - n) /\ frames' = Wants(Top.want - n)
  /\ UNCHANGED <<check, halted>>

\* FUNC_CALL and FUNC_CALL_INFIX of a function with n arguments: call_func_with_args
\* leaves a slot between its values and the caller's.
Call(n) ==
  /\ Running /\ n < Top.want
  /\ LET sptr == Len(stack) - n - 1
     IN /\ stack' = Above(sptr, "value")
        /\ frames' = Append(Wants(Top.want - n), Began(sptr, sptr + 1))
  /\ UNCHANGED <<check, halted>>

\* Of a C function that returns something the next step has to look at.
CallC(n, kind) ==
  /\ Running /\ n < Top.want
  /\ stack' = Above(Len(stack) - n - 1, kind) /\ frames' = Wants(Top.want - n)
  /\ check' = TRUE /\ UNCHANGED halted

\* LOAD_MODULE, MOD_RET: a module's values are not kept apart.
LoadModule ==
  /\ Running
  /\ frames' = Append(Wants(Top.want + 1), Began(Len(stack), Len(stack)))
  /\ UNCHANGED <<stack, check, halted>>

IsModule(f) == f > 1 /\ frames[f].base = frames[f].sptr

ModRet ==
  /\ Running /\ IsModule(Len(frames))
  /\ stack' = Above(Top.sptr, "value") /\ frames' = FramesUpTo(Len(frames) - 1)
  /\ UNCHANGED <<check, halted>>

\* An ASSERT that fails, in a function that was not called by a continuation: to
\* one that was called by it the error would not be given (vm.c:768).
AssertFails ==
  /\ Running /\ Len(frames) > 1 /\ ~IsContinuation(Top.sptr)
  /\ stack' = Above(Top.sptr, "value") /\ frames' = FramesUpTo(Len(frames) - 1)
  /\ UNCHANGED <<check, halted>>

-----------------------------------------------------------------------------
(* after_func_return.  A value is put into slot top of frame n.             *)

\* Where it comes into frame k: the frames above are left with a RETURN value.
Arrival(n, top, k) == IF k = n THEN top ELSE frames[k + 1].sptr + 1

\* From one slot it gets down to another when all in between are continuations,
\* which are resumed.
Resumed(to, from) == \A i \in to .. from - 1 : IsContinuation(i)

\* A frame is left when a continuation of guard answers with a RETURN value.
Reaches(n, top, k, slot) ==
  /\ slot \in 1 .. Arrival(n, top, k) /\ Resumed(slot, Arrival(n, top, k))
  /\ \A j \in k + 1 .. n :
       \E i \in 1 .. Arrival(n, top, j) - 1 :
         stack[i] = "answering" /\ Resumed(i, Arrival(n, top, j))

\* It stays there when there is nothing to resume, or when what it was handed on by
\* does not look.
Settles(k, slot, resumed) ==
  /\ ~IsContinuation(slot - 1) \/ (resumed /\ stack[slot] = "passing")
  /\ stack' = Above(slot - 1, "value") /\ frames' = FramesUpTo(k)
  /\ check' = FALSE /\ UNCHANGED halted

\* The function of the continuation in the slot is called; it is one, see vm.c:554.
\* A C function gets at most one argument from a continuation: if and match do not
\* do with one.
CallsFunction(k, slot) ==
  /\ stack' = Above(slot, "value")
  /\ frames' = Append(FramesUpTo(k), Began(slot, slot + 1))
  /\ check' = FALSE /\ UNCHANGED halted

CallsCFunction(k, slot, kind) ==
  /\ stack' = Above(slot, kind) /\ frames' = FramesUpTo(k)
  /\ check' = TRUE /\ UNCHANGED halted

CallsAgain(k, slot) ==
  \/ CallsFunction(k, slot)
  \/ \E kind \in Kinds \ {"passing"} : CallsCFunction(k, slot, kind)

AfterFuncReturn(n, top) ==
  \E k \in 1 .. n : \E slot \in 1 .. Arrival(n, top, k) :
    /\ Reaches(n, top, k, slot)
    /\ \/ Settles(k, slot, slot < Arrival(n, top, k))
       \/ slot < Arrival(n, top, k) /\ CallsAgain(k, slot)

Leave == Len(frames) > 1 /\ AfterFuncReturn(Len(frames) - 1, Top.sptr + 1)

Ret == Running /\ Leave

\* What the C function has returned.
CheckRetval ==
  /\ ~halted /\ check
  /\ LET top == Len(stack)
     IN \/ stack[top] = "return" /\ Leave
        \/ stack[top] \in Continuations /\ CallsAgain(Len(frames), top)
        \/ stack[top] = "value" /\ AfterFuncReturn(Len(frames), top)

\* HALT, an error that is thrown away, a stack that is full, a RETURN value in no
\* function: of a machine that has stopped nothing is promised.
Stop ==
  /\ ~halted
  /\ halted' = TRUE /\ stack' = <<>> /\ frames' = <<>> /\ check' = FALSE

Next ==
  \/ PushValue \/ LoadModule \/ ModRet \/ AssertFails \/ Ret \/ CheckRetval \/ Stop
  \/ \E n \in 0 .. Len(stack) :
       \/ DropValues(n) \/ Call(n)
       \/ \E kind \in Kinds \ {"value"} : CallC(n, kind)

Spec == Init /\ [][Next]_vars

-----------------------------------------------------------------------------
(* Properties *)

\* The slots a frame expects, its own and all below.
Height(f) == frames[f].base + frames[f].want

\* Every frame has exactly the values its code says on the stack.  The frame that
\* waits for a call to return, and the one whose C function was just called, may
\* have continuations above them and nothing else: those the returned value will be
\* handed to.  A slot too many would be taken for an argument, or a function, by an
\* instruction later on (vm.c:429-582, 659-812).
StackBalance ==
  LET last == Len(frames)
  IN ~halted =>
     /\ \A f \in 1 .. last - 1 :
          /\ Height(f) - 1 <= frames[f + 1].sptr
          /\ Resumed(Height(f), frames[f + 1].sptr + 1)
     /\ IF check
        THEN Len(stack) >= Height(last) /\ Resumed(Height(last), Len(stack))
        ELSE Len(stack) = Height(last)

-----------------------------------------------------------------------------
(* Why it holds *)

Frame == [sptr : Nat, base : Nat, want : Nat]

\* A frame's own values in a stack: below them is the slot that was left, or a
\* value of the caller, or nothing.
Own(stk, fr, n) ==
  /\ fr.base + n <= Len(stk)
  /\ \A i \in fr.base .. fr.base + n : i > 0 => stk[i] = "value"

\* A frame that waits for what began above slot sptr.
Waits(stk, fr, sptr) ==
  /\ fr.want > 0 /\ Own(stk, fr, fr.want - 1)
  /\ fr.base + fr.want - 1 <= sptr /\ sptr <= Len(stk)
  /\ \A i \in fr.base + fr.want .. sptr : stk[i] \in Continuations

Follows(stk, fr, next) ==
  /\ Waits(stk, fr, next.sptr)
  /\ next.base = next.sptr => next.sptr = fr.base + fr.want - 1

\* The frames but for what the last one does.
InOrder(stk, frs) ==
  /\ frs \in Seq(Frame) /\ frs # <<>> /\ frs[1].base = 0
  /\ \A f \in DOMAIN frs : frs[f].base \in {frs[f].sptr, frs[f].sptr + 1}
  /\ \A f, g \in DOMAIN frs : f <= g => frs[f].base <= frs[g].base
  /\ \A f \in DOMAIN frs : f + 1 \in DOMAIN frs => Follows(stk, frs[f], frs[f + 1])
  /\ Own(stk, frs[Len(frs)], 0)

\* if and match are called with values of the program, so their continuations are
\* never directly above another one.
Alone(stk) ==
  \A i \in DOMAIN stk :
    stk[i] = "passing" => i - 1 \notin DOMAIN stk \/ stk[i - 1] \notin Continuations

IInv ==
  /\ stack \in Seq(Kinds) /\ check \in BOOLEAN /\ halted \in BOOLEAN
  /\ ~halted =>
       /\ InOrder(stack, frames) /\ Alone(stack)
       /\ IF check THEN Len(stack) > 0 /\ Waits(stack, Top, Len(stack) - 1)
          ELSE Own(stack, Top, Top.want) /\ Len(stack) = Top.base + Top.want
=============================================================================
