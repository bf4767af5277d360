-------------------------------- MODULE Exec --------------------------------
(***************************************************************************)
(* How one thread executes statements: exec_stmt and exec_stmt_list, which *)
(* call each other and eval_expr calls for a function, as a machine with a *)
(* stack of the activations in progress.                                   *)
(*                                                                         *)
(* Expressions are what they lead to: a value of the right kind, another   *)
(* one, an error, or a call of the function Body.  Of the names only one   *)
(* is kept, the one every for loop counts with, an int wherever it is      *)
(* declared and never frozen.                                              *)
(***************************************************************************)
EXTENDS Naturals, Sequences, FiniteSets

CONSTANTS
  Statements,      \* every statement, with the lists it has as its parts
  Programs,        \* the lists of statements of the top level
  Bodies,          \* the bodies of the function
  PrivateMode,     \* no state log
  MaxIterations,   \* max_iterations of a for loop (100000 in the code)
  MaxWhile,        \* bound: iterations of a while loop
  MaxTrace         \* bound: frames on the trace stack

ASSUME ExecAssumption ==
  /\ PrivateMode \in BOOLEAN
  /\ MaxIterations \in Nat /\ MaxWhile \in Nat /\ MaxTrace \in Nat

ASSUME StatementAssumption ==
  /\ Programs \subseteq Seq(Statements) /\ Bodies \subseteq Seq(Statements)
  /\ \A s \in Statements : /\ s.n \in Nat
                          /\ s.body \in Seq(Statements) /\ s.handler \in Seq(Statements)

VARIABLES
  function,   \* the body of the function
  stack,      \* the activations, the innermost last
  ret,        \* what the activation above the last returned, if it has
  loopDepth,  \* loop_depth
  trace,      \* trace_stack: has_call_location of each frame
  labels,     \* the label map of the top level and of each function called
  envs,       \* environments: each one's parent and what it has for the name
  aim         \* history: the loop depth the break under way is to leave, or the
              \* label of the jump

vars == <<function, stack, ret, loopDepth, trace, labels, envs, aim>>

Statuses == {"run", "ok", "error", "break", "continue", "return", "goto"}

Result(status, n) == [status |-> status, n |-> n]

Running == Result("run", 0)
Ok == Result("ok", 0)
Error == Result("error", 0)

-----------------------------------------------------------------------------
(* Stacks. *)

Top == stack[Len(stack)]

At(kind) == stack # <<>> /\ Top.kind = kind

Rest == SubSeq(stack, 1, Len(stack) - 1)

Activate(frame) == stack' = Append(stack, frame) /\ ret' = Running

Return(r) == stack' = Rest /\ ret' = r

Replace(frame) == stack' = Append(Rest, frame)

\* exec_stmt_list: gotopoints are registered first; the first of a name stays, as
\* label_map_find takes the first it finds.
ListFrame(list) == [kind |-> "list", list |-> list, i |-> 1]

Points(list, l) == {i \in DOMAIN list : list[i].op = "point" /\ list[i].n = l}

First(S) == CHOOSE i \in S : \A j \in S : i <= j

Registered(map, list) ==
  LET new == {list[i].n : i \in {j \in DOMAIN list : list[j].op = "point"}} \ DOMAIN map
  IN  [l \in DOMAIN map \cup new |->
         IF l \in DOMAIN map THEN map[l] ELSE First(Points(list, l))]

NoLabels == [l \in {} |-> 0]

Relabel(map) == [labels EXCEPT ![Len(labels)] = map]

\* A list starts on top of the frames given.
StartList(frames, list) ==
  /\ stack' = Append(frames, ListFrame(list))
  /\ ret' = Running
  /\ labels' = Relabel(Registered(labels[Len(labels)], list))

-----------------------------------------------------------------------------
(* The name in the environments. *)

Env == Len(envs)

\* The environment that has the name, from e outwards; 0 if none has.
Lookup(e) ==
  LET f[k \in 0..Len(envs)] ==
        IF k = 0 THEN 0 ELSE IF envs[k].bind # "none" THEN k ELSE f[envs[k].parent]
  IN  f[e]

Outer(e) == Lookup(envs[e].parent)

\* What env_get reads there; an alias of a loop's temporary reads the count.
Read(e) ==
  LET k == Lookup(e) IN
    IF k = 0 THEN "unset" ELSE IF envs[k].bind = "loop" THEN "count" ELSE envs[k].bind

Bind(e, b) == [envs EXCEPT ![e].bind = b]

-----------------------------------------------------------------------------
Init ==
  /\ function \in Bodies
  /\ \E p \in Programs :
       /\ stack = <<ListFrame(p)>>
       /\ labels = <<Registered(NoLabels, p)>>
  /\ ret = Running
  /\ loopDepth = 0
  /\ trace = IF PrivateMode THEN <<>> ELSE <<FALSE>>
  /\ envs = <<[parent |-> 0, bind |-> "none"]>>
  /\ aim = 0

-----------------------------------------------------------------------------
(* exec_stmt_list. *)

Stmt == Top.list[Top.i]

Execute(op) ==
  /\ At("list") /\ ret = Running
  /\ Top.i <= Len(Top.list)
  /\ Stmt.op = op

\* The statement is over without another activation.
Yield(r) == ret' = r /\ UNCHANGED stack

EndList ==
  /\ At("list") /\ ret = Running
  /\ Top.i > Len(Top.list)
  /\ Return(Ok)
  /\ UNCHANGED <<function, loopDepth, trace, labels, envs, aim>>

\* A jump index that the list has not is passed on.
ListResult ==
  /\ At("list") /\ ret # Running
  /\ CASE ret.status = "ok" -> Replace([Top EXCEPT !.i = @ + 1]) /\ ret' = Running
       [] ret.status = "goto" /\ ret.n <= Len(Top.list) ->
            Replace([Top EXCEPT !.i = ret.n]) /\ ret' = Running
       [] OTHER -> Return(ret)
  /\ UNCHANGED <<function, loopDepth, trace, labels, envs, aim>>

-----------------------------------------------------------------------------
(* Statements without parts. *)

Simple == UNCHANGED <<function, loopDepth, trace, labels, envs>>

ExecExpr ==
  /\ Execute("expr")
  /\ Yield(Ok) \/ Yield(Error)
  /\ Simple /\ UNCHANGED aim

\* A typed assignment to the name: where it is declared, through an alias to the
\* loop's temporary, or else in the parent environment.
ExecAssign ==
  /\ Execute("assign")
  /\ LET k == Lookup(Env) IN
       IF k # 0 THEN envs' = IF envs[k].bind = "loop" THEN envs ELSE Bind(k, "assigned")
       ELSE LET p == envs[Env].parent IN envs' = Bind(IF p # 0 THEN p ELSE Env, "assigned")
  /\ Yield(Ok)
  /\ UNCHANGED <<function, loopDepth, trace, labels, aim>>

ExecBreak ==
  /\ Execute("break")
  /\ IF Stmt.n > loopDepth THEN Yield(Error) /\ UNCHANGED aim
     ELSE Yield(Result("break", Stmt.n)) /\ aim' = loopDepth - Stmt.n
  /\ Simple

ExecContinue ==
  /\ Execute("continue")
  /\ IF loopDepth = 0 THEN Yield(Error) ELSE Yield(Result("continue", 0))
  /\ Simple /\ UNCHANGED aim

\* Refused unless the frame on top of the trace stack is a call's.
ExecReturn ==
  /\ Execute("return")
  /\ IF trace = <<>> \/ ~trace[Len(trace)] THEN Yield(Error)
     ELSE Yield(Result("return", 0)) \/ Yield(Error)
  /\ Simple /\ UNCHANGED aim

ExecPoint ==
  /\ Execute("point")
  /\ Yield(Ok)
  /\ Simple /\ UNCHANGED aim

ExecGoto ==
  /\ Execute("goto")
  /\ LET map == labels[Len(labels)] IN
       IF Stmt.n \in DOMAIN map THEN Yield(Result("goto", map[Stmt.n])) ELSE Yield(Error)
  /\ aim' = Stmt.n
  /\ Simple

-----------------------------------------------------------------------------
(* Conditionals, calls and try. *)

\* A condition holds, or none and there is no else, or one fails.
ExecIf ==
  /\ Execute("if")
  /\ \/ StartList(stack, Stmt.body)
     \/ (Yield(Ok) \/ Yield(Error)) /\ UNCHANGED labels
  /\ UNCHANGED <<function, loopDepth, trace, envs, aim>>

\* A call of the function, whose environment may have the name as a parameter; it
\* may fail before the body.
ExecCall ==
  /\ Execute("call")
  /\ \/ /\ Len(trace) < MaxTrace
        /\ stack' = Append(Append(stack, [kind |-> "call"]), ListFrame(function))
        /\ ret' = Running
        /\ trace' = Append(trace, TRUE)
        /\ labels' = Append(labels, Registered(NoLabels, function))
        /\ envs' = Append(envs, [parent |-> 1,
                                 bind |-> IF Stmt.n = 1 THEN "argument" ELSE "none"])
     \/ Yield(Error) /\ UNCHANGED <<trace, labels, envs>>
  /\ UNCHANGED <<function, loopDepth, aim>>

Shorter(s) == SubSeq(s, 1, Len(s) - 1)

\* Whatever the body's result, the statement is over; unless it returned a value,
\* the result is the return type's default.  With an error, that of the body or
\* of the return type, the trace keeps the frame.
CallResult ==
  /\ At("call") /\ ret # Running
  /\ \/ ret.status # "error" /\ Return(Ok) /\ trace' = Shorter(trace)
     \/ Return(Error) /\ UNCHANGED trace
  /\ labels' = Shorter(labels) /\ envs' = Shorter(envs)
  /\ UNCHANGED <<function, loopDepth, aim>>

ExecTry ==
  /\ Execute("try")
  /\ StartList(Append(stack, [kind |-> "try", handler |-> Stmt.handler,
                              named |-> Stmt.n = 1]), Stmt.body)
  /\ UNCHANGED <<function, loopDepth, trace, envs, aim>>

\* An error starts the catch block, in an environment of its own if it names the
\* error.
TryResult ==
  /\ At("try") /\ ret # Running
  /\ IF ret.status # "error" THEN Return(ret) /\ UNCHANGED <<labels, envs>>
     ELSE /\ StartList(Append(Rest, [kind |-> "catch", named |-> Top.named]), Top.handler)
          /\ envs' = IF Top.named THEN Append(envs, [parent |-> Env, bind |-> "none"])
                     ELSE envs
  /\ UNCHANGED <<function, loopDepth, trace, aim>>

CatchResult ==
  /\ At("catch") /\ ret # Running
  /\ Return(ret)
  /\ envs' = IF Top.named THEN Shorter(envs) ELSE envs
  /\ UNCHANGED <<function, loopDepth, trace, labels, aim>>

-----------------------------------------------------------------------------
(* Loops. *)

Ends(r) == r.status \notin {"ok", "continue"}

\* Mutant of Onward: a break of more than one loop is passed on whole.
OnwardWhole(r) ==
  IF r.status = "break" /\ r.n <= 1 THEN Ok ELSE r

\* What a loop makes of the result that ends it.
Onward(r) ==
  IF r.status # "break" THEN r ELSE IF r.n > 1 THEN Result("break", r.n - 1) ELSE Ok

ExecWhile ==
  /\ Execute("while")
  /\ Activate([kind |-> "while", body |-> Stmt.body, k |-> 0])
  /\ loopDepth' = loopDepth + 1
  /\ UNCHANGED <<function, trace, labels, envs, aim>>

\* The condition holds, or does not, or fails.
WhileTest ==
  /\ At("while") /\ ret = Running
  /\ \/ /\ Top.k < MaxWhile
        /\ StartList(Append(Rest, [Top EXCEPT !.k = @ + 1]), Top.body)
        /\ UNCHANGED loopDepth
     \/ /\ Return(Ok) \/ Return(Error)
        /\ loopDepth' = loopDepth - 1
        /\ UNCHANGED labels
  /\ UNCHANGED <<function, trace, envs, aim>>

\* Mutant of WhileResult: a jump out of the loop leaves loop_depth.
WhileResultGoto ==
  /\ At("while") /\ ret # Running
  /\ IF Ends(ret)
     THEN Return(Onward(ret)) /\ loopDepth' = loopDepth - (IF ret.status = "goto" THEN 0 ELSE 1)
     ELSE ret' = Running /\ UNCHANGED <<stack, loopDepth>>
  /\ UNCHANGED <<function, trace, labels, envs, aim>>

WhileResult ==
  /\ At("while") /\ ret # Running
  /\ IF Ends(ret) THEN Return(Onward(ret)) /\ loopDepth' = loopDepth - 1
     ELSE ret' = Running /\ UNCHANGED <<stack, loopDepth>>
  /\ UNCHANGED <<function, trace, labels, envs, aim>>

\* The target is an int; the name's binding and its value further out are saved, and
\* the name becomes an alias of a temporary.
ExecFor ==
  /\ Execute("for")
  /\ \/ /\ Activate([kind |-> "for", body |-> Stmt.body, k |-> 0, limit |-> Stmt.n, env |-> Env,
                      local |-> IF envs[Env].bind = "loop" THEN "count" ELSE envs[Env].bind,
                      outer |-> IF Outer(Env) = 0 THEN "none" ELSE Read(envs[Env].parent),
                      saw |-> Read(Env)])
        /\ loopDepth' = loopDepth + 1
        /\ envs' = Bind(Env, "loop")
     \/ Yield(Error) /\ UNCHANGED <<loopDepth, envs>>
  /\ UNCHANGED <<function, trace, labels, aim>>

\* The alias is deleted, which leaves a declared name, or the binding restored.
Restored(f) == Bind(f.env, IF f.local = "none" THEN "unset" ELSE f.local)

\* After the last iteration or a break the value from further out is assigned to
\* the name too.
RestoredTwice(f) ==
  IF f.outer \in {"none", "unset"} THEN Restored(f) ELSE Bind(f.env, f.outer)

\* The counter is assigned, through the alias unless an inner loop has replaced it.
Counted(f) == IF envs[f.env].bind = "loop" THEN envs ELSE Bind(f.env, "count")

ForTest ==
  /\ At("for") /\ ret = Running
  /\ \/ /\ Top.k < Top.limit /\ Top.k < MaxIterations
        /\ StartList(Append(Rest, [Top EXCEPT !.k = @ + 1]), Top.body)
        /\ envs' = Counted(Top)
        /\ UNCHANGED loopDepth
     \/ /\ Top.k < Top.limit /\ Top.k = MaxIterations
        /\ Return(Error) /\ envs' = Restored(Top)
        /\ loopDepth' = loopDepth - 1
        /\ UNCHANGED labels
     \/ /\ Top.k = Top.limit
        /\ Return(Ok) /\ envs' = RestoredTwice(Top)
        /\ loopDepth' = loopDepth - 1
        /\ UNCHANGED labels
  /\ UNCHANGED <<function, trace, aim>>

\* Mutant of ForResult: an error only deletes the counter.
ForResultDeleted ==
  /\ At("for") /\ ret # Running
  /\ IF Ends(ret)
     THEN /\ Return(Onward(ret)) /\ loopDepth' = loopDepth - 1
          /\ envs' = CASE Onward(ret) = Ok -> RestoredTwice(Top)
                      [] ret.status = "error" -> Bind(Top.env, "unset")
                      [] OTHER -> Restored(Top)
     ELSE ret' = Running /\ UNCHANGED <<stack, loopDepth, envs>>
  /\ UNCHANGED <<function, trace, labels, aim>>

ForResult ==
  /\ At("for") /\ ret # Running
  /\ IF Ends(ret)
     THEN /\ Return(Onward(ret)) /\ loopDepth' = loopDepth - 1
          /\ envs' = IF Onward(ret) = Ok THEN RestoredTwice(Top) ELSE Restored(Top)
     ELSE ret' = Running /\ UNCHANGED <<stack, loopDepth, envs>>
  /\ UNCHANGED <<function, trace, labels, aim>>

-----------------------------------------------------------------------------
Next ==
  \/ EndList \/ ListResult
  \/ ExecExpr \/ ExecAssign \/ ExecBreak \/ ExecContinue \/ ExecReturn \/ ExecPoint
  \/ ExecGoto \/ ExecIf \/ ExecCall \/ CallResult \/ ExecTry \/ TryResult \/ CatchResult
  \/ ExecWhile \/ WhileTest \/ WhileResult \/ ExecFor \/ ForTest \/ ForResult

Spec == Init /\ [][Next]_vars

-----------------------------------------------------------------------------
(* Properties. *)

Frames(kinds) == {k \in DOMAIN stack : stack[k].kind \in kinds}

Binds == {"none", "unset", "loop", "count", "assigned", "argument"}

\* Types; every call on the stack has a label map, and it and every catch block that
\* names its error an environment.
TypeOK ==
  /\ ret \in [status : Statuses, n : Nat]
  /\ loopDepth \in Nat /\ aim \in Nat
  /\ trace \in Seq(BOOLEAN)
  /\ \A e \in DOMAIN envs : envs[e].parent \in 0..(e - 1) /\ envs[e].bind \in Binds
  /\ LET calls == Cardinality(Frames({"call"}))
         named == {k \in Frames({"catch"}) : stack[k].named} IN
       /\ Len(labels) = 1 + calls
       /\ Len(envs) = 1 + calls + Cardinality(named)

\* loop_depth, against which break and continue are checked, is the number of loops
\* in progress, however each of the others was left: at its end, or by a break, an
\* error, a return or a jump from any depth.
LoopDepthExact == loopDepth = Cardinality(Frames({"while", "for"}))

\* "break(n) MUST terminate the innermost n enclosing loops"
\* (docs/specification/3-statements.html:102): a loop that ends by a break passes it
\* on as long as fewer than n loops have ended.
BreakExact ==
  [][(At("while") \/ At("for")) /\ ret.status = "break" =>
       (ret'.status = "break" <=> loopDepth' > aim)]_vars

Leaves(kind) == At(kind) /\ Len(stack') < Len(stack)

ReadNext(e) ==
  LET f[k \in 0..Len(envs')] ==
        IF k = 0 THEN 0 ELSE IF envs'[k].bind # "none" THEN k ELSE f[envs'[k].parent]
      k == f[e]
  IN  IF k = 0 THEN "unset" ELSE IF envs'[k].bind = "loop" THEN "count" ELSE envs'[k].bind

\* Whichever way a for loop is left, the name reads in its environment what it read
\* before, unless it is bound further out as well: then STMT_FOR assigns the outer
\* value to it (interpreter.c:4155).
CounterRestored ==
  [][Leaves("for") /\ Top.outer = "none" => ReadNext(Top.env) = Top.saw]_vars

\* "goto(n) MUST jump to a previously registered gotopoint with matching type and
\* value" (docs/specification/3-statements.html:108): a list goes on at that gotopoint.
GotoLands ==
  [][At("list") /\ ret.status = "goto" /\ ret' = Running =>
       LET top == stack'[Len(stack')] IN
         top.list[top.i].op = "point" /\ top.list[top.i].n = aim]_vars

=============================================================================
