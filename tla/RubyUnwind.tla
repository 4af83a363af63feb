---------------------------- MODULE RubyUnwind ----------------------------
(***************************************************************************)
(* The interpreter's exception, `ensure`, `break`/`next` and `return`      *)
(* machinery: the handler, loop and begin stacks of a frame (vm.rs), the   *)
(* unwinder and the walks that park in ensure bodies (vm/raise.rs), and    *)
(* the bytecodes that drive them (vm/step.rs).  CodeOf gives a program's   *)
(* bytecode, Matches says which rescue filter takes which exception.       *)
(* Frames are numbered from 1.                                             *)
(***************************************************************************)
EXTENDS RubyNesting

CONSTANTS
  Programs, CodeOf(_), Matches(_, _),
  NilValue, RuntimeErr,
  Iterations       \* bound on the counter that loop conditions and `retry if` read

VARIABLES
  prog, code,      \* what is run; never changes
  frames,          \* Seq of [entry, ip, base, rescues, loops, begins]
  stack,           \* operand stack
  xfers,           \* pending_loop_transfers
  walks,           \* pending_method_breaks
  seq,             \* suspend_seq
  bang,            \* `$!`
  trace, left, status

vars  == <<prog, code, frames, stack, xfers, walks, seq, bang, trace, left, status>>
fixed == <<prog, code>>

Upto(s, n) == SubSeq(s, 1, IF n < Len(s) THEN n ELSE Len(s))
Peek(s)    == s[Len(s)]
Largest(S) == CHOOSE x \in S : \A y \in S : y <= x
Frame(ip, base) ==
  [entry |-> ip, ip |-> ip, base |-> base, rescues |-> <<>>, loops |-> <<>>, begins |-> <<>>]

Init ==
  /\ prog \in Programs /\ code = CodeOf(prog)
  /\ frames = <<Frame(1, 0)>> /\ stack = <<>>
  /\ xfers = <<>> /\ walks = <<>> /\ seq = 0
  /\ bang = NilValue /\ trace = <<>> /\ left = Iterations
  /\ status = "running"

(***************************************************************************)
(* Fetching: the instruction pointer moves past the op before it runs.     *)
(***************************************************************************)
Top     == Peek(frames)
Instr   == code[Top.ip]
Target  == Top.ip + Instr.x
Past    == [Top EXCEPT !.ip = @ + 1]
Set(f)  == [frames EXCEPT ![Len(frames)] = f]
At(op)  == status = "running" /\ Instr.op = op
Quiet   == UNCHANGED <<fixed, xfers, walks, seq>>

(***************************************************************************)
(* Walks.  A parked walk waits in an ensure body for the EndEnsure at the  *)
(* frame, handler depth and stack depth it recorded.  body is the address  *)
(* of that ensure body, kept for NoStaleWalk only.                         *)
(***************************************************************************)
Moving == [on |-> FALSE, frame |-> 0, rescues |-> 0, stack |-> 0, loops |-> 0, seq |-> 0, body |-> 0]

Parked(f, k, depth, h) ==
  [on |-> TRUE, frame |-> k, rescues |-> Len(f.rescues), stack |-> depth,
   loops |-> Len(f.loops), seq |-> seq + 1, body |-> h.ip]

\* Vec::retain: the entries of s that are in S.
Kept(s, S) ==
  LET kept[i \in 0 .. Len(s)] ==
        IF i = 0 THEN <<>>
        ELSE IF s[i] \in S THEN Append(kept[i - 1], s[i]) ELSE kept[i - 1]
  IN kept[Len(s)]

InLiveFrame(w, k) == w.at.on => w.at.frame <= k
cancel_transfers_in_dead_frames(s, k) == Kept(s, {w \in Range(s) : InLiveFrame(w, k)})

\* The handlers of frames lo.. as <<frame, index>>, and the innermost of some.
HandlersOf(fs, lo) == UNION {{k} \X DOMAIN fs[k].rescues : k \in lo .. Len(fs)}
Innermost(H) == CHOOSE p \in H : \A q \in H : q[1] < p[1] \/ (q[1] = p[1] /\ q[2] <= p[2])

\* `$!` after frames k+1.. are popped by a walk or a return: each restores the
\* snapshot of its outermost open begin, the outermost frame last.
\* Mutant: they do not.
BangKept(fs, k) == bang
BangAfterPop(fs, k) ==
  LET S == {j \in k + 1 .. Len(fs) : fs[j].begins # <<>>}
  IN IF S = {} THEN bang ELSE fs[CHOOSE j \in S : \A m \in S : j <= m].begins[1].bang

(***************************************************************************)
(* unwind_with_exception.  fs and st are the frames and the stack once the *)
(* raising op has been fetched.                                            *)
(***************************************************************************)
Unwind(exc, fs, st) ==
  LET Stops(h) == h.ens \/ Matches(h.filter, exc)
      H == {q \in HandlersOf(fs, 1) : Stops(fs[q[1]].rescues[q[2]])}
      p == Innermost(H)
      k == p[1]
      f == fs[k]
      h == f.rescues[p[2]]
      Encloses(w) == w.at.on /\ (w.at.frame < k \/ (w.at.frame = k /\ w.at.rescues < p[2]))
      saved == IF h.beginAt < Len(f.begins) THEN f.begins[h.beginAt + 1].bang ELSE bang
      base == [rescues |-> p[2] - 1, loops |-> h.loopAt, bang |-> saved]
  IN IF H = {}
     THEN /\ status' = "uncaught" /\ frames' = <<>> /\ stack' = <<exc>>
          /\ xfers' = <<>> /\ walks' = <<>>
          /\ UNCHANGED <<fixed, seq, bang, trace, left>>
     ELSE /\ frames' = Append(Upto(fs, k - 1),
               [f EXCEPT !.ip = h.ip,
                         !.rescues = Upto(@, p[2] - 1),
                         !.loops = Upto(@, h.loopAt),
                         !.begins = Upto(@, h.beginAt) \o (IF h.ens THEN <<base>> ELSE <<>>)])
          /\ stack' = Upto(st, h.depth) \o (IF h.ens THEN <<exc>> ELSE <<>>)
          /\ xfers' = Kept(xfers, {w \in Range(xfers) : Encloses(w)})
          /\ walks' = Kept(walks, {w \in Range(walks) : Encloses(w)})
          /\ bang' = exc
          /\ UNCHANGED <<fixed, seq, trace, left, status>>

(***************************************************************************)
(* continue_loop_transfer: park in the next ensure body above the target   *)
(* loop's handler depth, or land at the loop.                              *)
(***************************************************************************)
ContinueTransfer(t, others, fs, st) ==
  LET f    == Peek(fs)
      ens  == {i \in t.rescues + 1 .. Len(f.rescues) : f.rescues[i].ens}
      i    == Largest(ens)
      h    == f.rescues[i]
      g    == [f EXCEPT !.ip = h.ip, !.rescues = Upto(@, i - 1)]
      keep == Largest({0} \cup {j \in DOMAIN f.begins : f.begins[j].loops <= t.loops})
      PutTop(x) == Append(Upto(fs, Len(fs) - 1), x)
  IN IF ens # {}
     THEN /\ frames' = PutTop(g)
          /\ stack' = Upto(st, h.depth)
          /\ xfers' = Append(others, [t EXCEPT !.at = Parked(g, Len(fs), h.depth, h)])
          /\ seq' = seq + 1 /\ UNCHANGED bang
     ELSE /\ frames' = PutTop([f EXCEPT !.ip = t.ip, !.rescues = Upto(@, t.rescues),
                                        !.loops = Upto(@, t.loops + 1), !.begins = Upto(@, keep)])
          /\ stack' = Upto(st, t.stack) \o t.value
          /\ xfers' = others
          /\ bang' = IF keep < Len(f.begins) THEN f.begins[keep + 1].bang ELSE bang
          /\ UNCHANGED seq

\* The SUPERSEDE sweep of a break or next: it leaves the body w is parked in when
\* it goes below that body's handlers, or to a loop that was open when w parked.
\* Mutant: only the handlers are compared.
SurvivesByHandlers(w, t) == ~ w.at.on \/ w.at.frame # Len(frames) \/ w.at.rescues <= t.rescues
SurvivesTransfer(w, t) ==
  ~ w.at.on \/ w.at.frame # Len(frames) \/ (w.at.rescues <= t.rescues /\ w.at.loops <= t.loops)

\* begin_loop_transfer
BeginTransfer(value, st) ==
  LET f == Past
      t == [value |-> value, ip |-> Target, rescues |-> Peek(f.loops).rescues,
            loops |-> Len(f.loops) - 1, stack |-> Peek(f.loops).stack, at |-> Moving]
      Survivors(s) == Kept(s, {w \in Range(s) : SurvivesTransfer(w, t)})
  IN /\ walks' = Survivors(walks)
     /\ ContinueTransfer(t, Survivors(xfers), Set(f), st)
     /\ UNCHANGED <<fixed, trace, left, status>>

(***************************************************************************)
(* continue_method_break: park in the next ensure body of frames target.., *)
(* innermost first, or pop them all and hand the value to the caller.      *)
(***************************************************************************)
ContinueWalk(w, others, fs, st) ==
  LET H == {q \in HandlersOf(fs, w.target) : fs[q[1]].rescues[q[2]].ens}
      p == Innermost(H)
      k == p[1]
      h == fs[k].rescues[p[2]]
      g == [fs[k] EXCEPT !.ip = h.ip, !.rescues = Upto(@, p[2] - 1)]
      s == Upto(IF k < Len(fs) THEN Upto(st, fs[k + 1].base) ELSE st, h.depth)
  IN IF H # {}
     THEN /\ frames' = Append(Upto(fs, k - 1), g)
          /\ stack' = s
          /\ walks' = Append(others, [w EXCEPT !.at = Parked(g, k, Len(s), h)])
          /\ seq' = seq + 1
          /\ bang' = BangAfterPop(fs, k)
     ELSE /\ frames' = Upto(fs, w.target - 1)
          /\ stack' = Append(Upto(st, fs[w.target].base), w.value)
          /\ walks' = others
          /\ bang' = BangAfterPop(fs, w.target - 1)
          /\ UNCHANGED seq

\* begin_method_break: only walks parked below the target contain this one.
SurvivesWalk(w, target) == w.at.on /\ w.at.frame < target

BeginWalk(value, target, fs, st) ==
  LET Below(s) == Kept(s, {w \in Range(s) : SurvivesWalk(w, target)})
      w == [value |-> value, target |-> target, at |-> Moving]
  IN /\ xfers' = Below(xfers)
     /\ ContinueWalk(w, Below(walks), fs, st)
     /\ UNCHANGED <<fixed, trace, left, status>>

(***************************************************************************)
(* The bytecodes.                                                          *)
(***************************************************************************)
Advance(f, st) == frames' = Set(f) /\ stack' = st /\ Quiet

Load == /\ At("Load") /\ Advance(Past, Append(stack, Instr.v))
        /\ UNCHANGED <<bang, trace, left, status>>

Pop == /\ At("Pop") /\ Advance(Past, Front(stack))
       /\ UNCHANGED <<bang, trace, left, status>>

\* A call that only leaves its mark on the output.
TickOp == /\ At("Tick") /\ Advance(Past, Append(stack, NilValue))
          /\ trace' = Append(trace, <<Instr.v, bang>>)
          /\ UNCHANGED <<bang, left, status>>

Jump == /\ At("Jump") /\ Advance([Top EXCEPT !.ip = Target], stack)
        /\ UNCHANGED <<bang, trace, left, status>>

\* A condition on the counter and its JumpIfFalse.
JumpUnless == /\ At("JumpUnless")
              /\ Advance(IF left > 0 THEN Past ELSE [Top EXCEPT !.ip = Target], stack)
              /\ left' = (IF left > 0 THEN left - 1 ELSE 0)
              /\ UNCHANGED <<bang, trace, status>>

CallOp == /\ At("Call")
          /\ frames' = Append(Set(Past), Frame(Target, Len(stack)))
          /\ Quiet /\ UNCHANGED <<stack, bang, trace, left, status>>

Halt == /\ At("Halt") /\ status' = "done"
        /\ Quiet /\ UNCHANGED <<frames, stack, bang, trace, left>>

Handler(ens) ==
  [ip |-> Target, depth |-> Len(stack), ens |-> ens, filter |-> Instr.v,
   loopAt |-> Len(Top.loops), beginAt |-> Len(Top.begins)]

PushHandler == /\ At("PushRescue") \/ At("PushEnsure")
               /\ Advance([Past EXCEPT !.rescues = Append(@, Handler(Instr.op = "PushEnsure"))], stack)
               /\ UNCHANGED <<bang, trace, left, status>>

PopHandler == /\ At("PopRescue") \/ At("PopEnsure")
              /\ Advance([Past EXCEPT !.rescues = Upto(@, Len(@) - 1)], stack)
              /\ UNCHANGED <<bang, trace, left, status>>

EnterBegin ==
  /\ At("EnterBegin")
  /\ Advance([Past EXCEPT !.begins =
       Append(@, [rescues |-> Len(Top.rescues), loops |-> Len(Top.loops), bang |-> bang])], stack)
  /\ UNCHANGED <<bang, trace, left, status>>

ExitBegin ==
  /\ At("ExitBegin")
  /\ Advance([Past EXCEPT !.begins = Front(@)], stack)
  /\ bang' = Peek(Top.begins).bang
  /\ UNCHANGED <<trace, left, status>>

\* Mutant: the loops stay open.
TruncateHandlersOnly ==
  /\ At("TruncateRescuesToBeginBaseline")
  /\ Advance([Past EXCEPT !.rescues = Upto(@, Peek(Top.begins).rescues)], stack)
  /\ UNCHANGED <<bang, trace, left, status>>
TruncateRescuesToBeginBaseline ==
  /\ At("TruncateRescuesToBeginBaseline")
  /\ LET b == Peek(Top.begins)
     IN Advance([Past EXCEPT !.rescues = Upto(@, b.rescues), !.loops = Upto(@, b.loops)], stack)
  /\ UNCHANGED <<bang, trace, left, status>>

EnterLoop == /\ At("EnterLoop")
             /\ Advance([Past EXCEPT !.loops =
                  Append(@, [rescues |-> Len(Top.rescues), stack |-> Len(stack)])], stack)
             /\ UNCHANGED <<bang, trace, left, status>>

ExitLoop == /\ At("ExitLoop") /\ Advance([Past EXCEPT !.loops = Front(@)], stack)
            /\ UNCHANGED <<bang, trace, left, status>>

BreakLoop == At("BreakLoop") /\ BeginTransfer(<<Peek(stack)>>, Front(stack))
NextLoop  == At("NextLoop") /\ BeginTransfer(<<>>, stack)

\* do_raise_value: a bare raise takes `$!`.
RaiseOp ==
  /\ At("Raise")
  /\ LET v == Peek(stack)
         e == IF v # NilValue THEN v ELSE IF bang # NilValue THEN bang ELSE RuntimeErr
     IN Unwind(e, Set(Past), Front(stack))

\* The tail of an ensure body: resume the walk parked here, the latest if two
\* are, and otherwise raise again the exception the unwinder pushed; with no
\* value on the stack the interpreter panics.
EndEnsure ==
  /\ At("EndEnsure")
  /\ LET Here(s) == /\ s # <<>> /\ Peek(s).at.on
                    /\ Peek(s).at.frame = Len(frames)
                    /\ Peek(s).at.rescues = Len(Top.rescues)
                    /\ Peek(s).at.stack = Len(stack)
         latest  == Here(walks) => Peek(xfers).at.seq > Peek(walks).at.seq
     IN IF Here(xfers) /\ latest
        THEN /\ ContinueTransfer([Peek(xfers) EXCEPT !.at = Moving], Front(xfers), Set(Past), stack)
             /\ UNCHANGED <<fixed, walks, trace, left, status>>
        ELSE IF Here(walks)
        THEN /\ ContinueWalk([Peek(walks) EXCEPT !.at = Moving], Front(walks), Set(Past), stack)
             /\ UNCHANGED <<fixed, xfers, trace, left, status>>
        ELSE IF stack # <<>> THEN Unwind(Peek(stack), Set(Past), Front(stack))
        ELSE status' = "ice" /\ Quiet /\ UNCHANGED <<frames, stack, bang, trace, left>>

\* Mutant: only the innermost handler is looked at.
InnermostIsEnsure(f) == f.rescues # <<>> /\ Peek(f.rescues).ens
PendingEnsure(f)     == \E i \in DOMAIN f.rescues : f.rescues[i].ens

\* Op::Return: a pending ensure makes it a walk, otherwise the frame goes.
ReturnOp ==
  /\ At("Return")
  /\ LET n == Len(frames)
     IN IF PendingEnsure(Top)
        THEN BeginWalk(Peek(stack), n, Set(Past), Front(stack))
        ELSE /\ frames' = Upto(frames, n - 1)
             /\ stack' = Append(Upto(stack, Top.base), Peek(stack))
             /\ xfers' = cancel_transfers_in_dead_frames(xfers, n - 1)
             /\ walks' = cancel_transfers_in_dead_frames(walks, n - 1)
             /\ bang' = BangAfterPop(frames, n - 1)
             /\ UNCHANGED <<fixed, seq, trace, left, status>>

Stopped == status # "running" /\ UNCHANGED vars

Next ==
  \/ Load \/ Pop \/ TickOp \/ Jump \/ JumpUnless \/ CallOp \/ Halt
  \/ PushHandler \/ PopHandler \/ EnterBegin \/ ExitBegin \/ TruncateRescuesToBeginBaseline
  \/ EnterLoop \/ ExitLoop \/ BreakLoop \/ NextLoop \/ RaiseOp \/ EndEnsure \/ ReturnOp
  \/ Stopped

Spec == Init /\ [][Next]_vars /\ WF_vars(Next)

(***************************************************************************)
(* Properties.                                                             *)
(***************************************************************************)
\* A walk stays parked exactly as long as control is inside the ensure body it
\* waits in (SuspendCoord): its frame lives and has not left that body.
NoStaleWalk ==
  \A w \in Range(xfers) \cup Range(walks) : w.at.on =>
    /\ w.at.frame <= Len(frames)
    /\ frames[w.at.frame].ip \in w.at.body .. BodyEnd(code, w.at.body)

\* At every leaf a frame has exactly the handlers and loops that enclose it in
\* the text: none left behind by a transfer that jumped out, none lost.
StacksMatchNesting ==
  status = "running" /\ Instr.op = "Tick" =>
    /\ Len(Top.rescues) = Nesting(code, Pushes, Pops, Top.entry, Top.ip)
    /\ Len(Top.loops) = Nesting(code, {"EnterLoop"}, {"ExitLoop"}, Top.entry, Top.ip)
=============================================================================
