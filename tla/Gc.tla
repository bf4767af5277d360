---- MODULE Gc ----
(***************************************************************************)
(* The collector of the standard library (src/lib/std/gc/gc.c).  It deletes *)
(* names, not memory: collect() parses the source of the running program   *)
(* again, gathers the names that occur after the current line, and removes *)
(* every tracked binding that is not among them.  The module models the    *)
(* program it runs in as far as the collector judges it: the lines of a    *)
(* main source and of one imported module, with loops, branches, functions,*)
(* function values, pointers and backward jumps.                           *)
(***************************************************************************)
EXTENDS Integers, Sequences, FiniteSets, SequencesExt

CONSTANTS
  Programs,      \* programs: a sequence of lines for each source
  Qualified(_),  \* the name under which main sees a name of the module
  Flag,          \* gc.track_new_symbols
  MaxCalls       \* calls in progress at once

Main == 0        \* the environments: of the main program, of the module,
Lib == -1        \* and 1, 2... of the calls in progress
Freed == -2      \* the environment of a call that has returned

Calls == 1..MaxCalls
EnvIds == {Main, Lib} \cup Calls

\* A block statement at line i has its body on the lines i + 1 .. last.
Loops == {"while"}
Blocks == Loops \cup {"if", "func"}

VARIABLES
  prog,       \* the program
  frames,     \* calls in progress, the innermost first: source, line, end, env
  envs,       \* each environment's closure and its entries in order
  symbols,    \* gc_symbols: the tracked bindings, the newest first
  gone,       \* history: bindings collected and not defined again
  fault       \* the names a line needed and did not find for that reason

vars == <<prog, frames, envs, symbols, gone, fault>>

Source(e) == IF e = Lib THEN "lib" ELSE "main"

-----------------------------------------------------------------------------
(* Environments. *)

Entry(name, value, alias) == [name |-> name, value |-> value, alias |-> alias]

NoAlias == <<Freed, Flag>>

At(es, e, n) == {i \in DOMAIN es[e].entries : es[e].entries[i].name = n}
Has(es, e, n) == At(es, e, n) # {}
The(es, e, n) == es[e].entries[CHOOSE i \in At(es, e, n) : TRUE]

\* An environment and the one it was created in.
Chain(es, e) == IF es[e].up = e THEN <<e>> ELSE <<e, es[e].up>>

Holders(es, e, n) == {i \in DOMAIN Chain(es, e) : Has(es, Chain(es, e)[i], n)}
Visible(es, e, n) == Holders(es, e, n) # {}
Holder(es, e, n) ==
  Chain(es, e)[CHOOSE i \in Holders(es, e, n) : \A j \in Holders(es, e, n) : i <= j]

\* The binding a name stands for, its pointer followed.
Final(es, e, n) ==
  LET h == Holder(es, e, n)
      a == The(es, h, n).alias
  IN IF a = NoAlias THEN <<h, n>> ELSE a

\* The nearest binding of n was collected: it is missing, or hidden by a further one.
Missed(e, n) ==
  LET c == Chain(envs, e)
  IN \E i \in DOMAIN c : /\ <<c[i], n>> \in gone
                         /\ \A j \in 1..i : ~Has(envs, c[j], n)

\* A name cannot be read as if the collector had not run.
Lost(e, n) ==
  \/ Missed(e, n)
  \/ Visible(envs, e, n) /\ Final(envs, e, n) \in gone

\* Set or add an entry of an environment.
WithEntry(es, e, new) ==
  IF Has(es, e, new.name)
  THEN [es EXCEPT ![e].entries[CHOOSE i \in At(es, e, new.name) : TRUE] = new]
  ELSE [es EXCEPT ![e].entries = Append(@, new)]

-----------------------------------------------------------------------------
(* The scan: the names that occur in the rest of the program.  All lines   *)
(* are numbered in their source; a line is scanned whole (one statement).  *)

Enclosing(text, i) == {j \in DOMAIN text : text[j].op \in Blocks /\ j < i /\ i <= text[j].last}

\* What gc_scan_stmt and gc_scan_expr add for the line itself: the names it
\* evaluates, the name an untyped assignment sets, the function it calls.
LineNames(line) ==
  line.reads \cup (IF line.op \in {"set", "call"} THEN {line.name} ELSE {})

\* A loop in progress is scanned again from its top...
LoopActive(text, j, now) == text[j].op \in Loops /\ j <= now /\ text[j].last > now

\* ...and so is the function the current line is in.
FuncActive(text, j, now) == text[j].op = "func" /\ j <= now /\ text[j].last >= now

Funcs(text, i) == {j \in Enclosing(text, i) : text[j].op = "func"}

\* A loop that has ended is not entered, and neither are the functions within.
Reached(text, i, now) ==
  \A j \in Enclosing(text, i) : text[j].op \in Loops => text[j].last > now

InActiveLoop(text, i, now) == \E j \in Enclosing(text, i) \cup {i} : LoopActive(text, j, now)

\* Mutant of BodyScanned: only the body of the function in progress.
BodyScannedActive(text, f, now, names) ==
  Reached(text, f, now) /\ (FuncActive(text, f, now) \/ InActiveLoop(text, f, now))

\* The body of an outermost function is scanned, whole, when it is in progress or
\* in a loop in progress, or when a name found refers to it (gc_scan_called_functions).
BodyScanned(text, f, now, names) ==
  /\ Reached(text, f, now)
  /\ \/ FuncActive(text, f, now)
     \/ InActiveLoop(text, f, now)
     \/ text[f].name \in names

\* The names on line i are added.
Counts(text, i, now, names) ==
  IF Funcs(text, i) = {} THEN i > now \/ InActiveLoop(text, i, now)
  ELSE BodyScanned(text, Min(Funcs(text, i)), now, names)

ActiveFuncs(text, now) ==
  {f \in DOMAIN text : Funcs(text, f) = {} /\ FuncActive(text, f, now) /\ Reached(text, f, now)}

Found(text, now, names) ==
  names \cup UNION {LineNames(text[i]) : i \in {k \in DOMAIN text : Counts(text, k, now, names)}}
        \cup {text[f].name : f \in ActiveFuncs(text, now)}

\* gc_scan_source of the current source: the names of the lines to come, and of
\* the functions they call, round after round until no function is added.
SourceNames(text, now) ==
  LET round[k \in 0..Len(text)] ==
        IF k = 0 THEN Found(text, now, {}) ELSE Found(text, now, round[k - 1])
  IN round[Len(text)]

\* A module is scanned whole, functions and all.
ModuleNames(text) == UNION {LineNames(text[i]) : i \in DOMAIN text}

\* gc_scan_references.  A source is scanned once, and the main program is not a
\* module: a collection from within a module scans the rest of the module only.
References(p, src, now) ==
  SourceNames(p[src], now) \cup (IF src = "lib" THEN {} ELSE ModuleNames(p.lib))

-----------------------------------------------------------------------------
(* Tracking. *)

Tracked(syms, e, n) == \E i \in DOMAIN syms : syms[i].env = e /\ syms[i].name = n

Bindings(es, e) == [i \in DOMAIN es[e].entries |-> [env |-> e, name |-> es[e].entries[i].name]]

\* gc_track_visible then the modules: the bindings of the scopes, in order.
InReach(es, e) ==
  FlattenSeq([i \in DOMAIN Chain(es, e) |-> Bindings(es, Chain(es, e)[i])])
    \o (IF es[e].up = Lib THEN <<>> ELSE Bindings(es, Lib))

\* gc_track_all_existing: each new one goes in front; force takes ignored ones back.
TrackAll(es, e, syms, force) ==
  LET new == SelectSeq(InReach(es, e), LAMBDA b : ~Tracked(syms, b.env, b.name))
      fresh == [i \in DOMAIN new |-> [env |-> new[i].env, name |-> new[i].name, ignored |-> FALSE]]
      reach == {InReach(es, e)[i] : i \in DOMAIN InReach(es, e)}
      taken(s) == force /\ [env |-> s.env, name |-> s.name] \in reach
  IN Reverse(fresh) \o [i \in DOMAIN syms |-> [syms[i] EXCEPT !.ignored = @ /\ ~taken(syms[i])]]

\* gc_tracking_enabled: on when the flag cannot be found.
TrackingOn(es, e) ==
  Visible(es, e, Flag) => The(es, Holder(es, e, Flag), Flag).value = "on"

\* gc_sync
Sync(es, e, syms) == IF TrackingOn(es, e) THEN TrackAll(es, e, syms, FALSE) ELSE syms

-----------------------------------------------------------------------------
(* Collection. *)

PointsTo(es, scope, e, n) ==
  \E i \in DOMAIN es[scope].entries : es[scope].entries[i].alias = <<e, n>>

\* gc_has_live_alias: a pointer in the scopes of the caller or of a module.
LivePointer(es, e, n, from) ==
  \/ \E i \in DOMAIN Chain(es, from) : PointsTo(es, Chain(es, from)[i], e, n)
  \/ PointsTo(es, Lib, e, n)

\* gc_name_referenced
Referenced(refs, e, n) == n \in refs \/ (e = Lib /\ Qualified(n) \in refs)

\* gc_remove_entry: no entry here is locked.
Without(es, e, n) == [es EXCEPT ![e].entries = SelectSeq(@, LAMBDA x : x.name # n)]

\* One symbol of the list.  A symbol of a freed environment is read all the
\* same; what is there holds no entry of that name, if it does not end the program.
Visit(s, acc, refs, from) ==
  IF s.env = Freed THEN acc
  ELSE IF ~Has(acc.envs, s.env, s.name) THEN acc
  ELSE IF ~s.ignored /\ ~Referenced(refs, s.env, s.name)
            /\ ~LivePointer(acc.envs, s.env, s.name, from)
  THEN [acc EXCEPT !.envs = Without(@, s.env, s.name), !.gone = @ \cup {<<s.env, s.name>>}]
  ELSE [acc EXCEPT !.symbols = Append(@, s)]

Collected(es, from, syms, refs) ==
  FoldLeft(LAMBDA acc, s : Visit(s, acc, refs, from),
           [envs |-> es, symbols |-> <<>>, gone |-> {}], syms)

-----------------------------------------------------------------------------
(* The program. *)

Top == frames[1]
Text == prog[Top.src]
Line == Text[Top.pc]

Running(op) == frames # <<>> /\ Top.pc <= Top.stop /\ Line.op = op

\* The heads of the loops of this body that end at a line.
HeadsOver(last, below) ==
  {j \in DOMAIN Text : /\ Text[j].op \in Loops /\ Text[j].last = last
                       /\ Top.start <= j /\ j < below}

\* Where control goes after line i, and after the block whose head is line i.
After(i) == IF HeadsOver(i, i) = {} THEN i + 1 ELSE Max(HeadsOver(i, i))
Beyond(i) == LET heads == HeadsOver(Text[i].last, i)
             IN IF heads = {} THEN Text[i].last + 1 ELSE Max(heads)

To(pc) == frames' = [frames EXCEPT ![1].pc = pc]

\* The names a line is about are looked up before it does anything.
Wanted == LineNames(Line) \cup (IF Line.op \in {"track", "ignore"} THEN {Line.name} ELSE {})

Readable(n) == Visible(envs, Top.env, n) /\ ~Lost(Top.env, n)
Reads == \A n \in Wanted : Readable(n)

\* A name that is missing is a runtime error, which ends the program.
Fail ==
  /\ frames # <<>> /\ Top.pc <= Top.stop /\ ~Reads
  /\ fault' = {n \in LineNames(Line) : Lost(Top.env, n)}
  /\ frames' = <<>>
  /\ UNCHANGED <<prog, envs, symbols, gone>>

\* The value of a declaration: a constant, or the function a name stands for.
Evaluated ==
  IF Line.reads = {} THEN Line.value
  ELSE LET b == Final(envs, Top.env, CHOOSE n \in Line.reads : TRUE)
       IN The(envs, b[1], b[2]).value

\* A name is declared where it is visible, or else in the environment around that
\* of a call (isolate_env_writes is set in PARFOR only).
DeclaredIn(n) == IF Visible(envs, Top.env, n) THEN Holder(envs, Top.env, n) ELSE envs[Top.env].up

BindTo(n, value) ==
  /\ envs' = WithEntry(envs, DeclaredIn(n), Entry(n, value, NoAlias))
  /\ gone' = gone \ {<<DeclaredIn(n), n>>}

\* `int n = 1`, `func n = f`
Declare ==
  /\ Running("decl") /\ Reads
  /\ BindTo(Line.name, Evaluated)
  /\ To(After(Top.pc))
  /\ UNCHANGED <<prog, symbols, fault>>

\* `int p = @n`: a pointer of the current scope to where n is.
Point ==
  /\ Running("point") /\ Reads
  /\ \E n \in Line.reads :
       envs' = WithEntry(envs, Top.env, Entry(Line.name, "v", Final(envs, Top.env, n)))
  /\ gone' = gone \ {<<Top.env, Line.name>>}
  /\ To(After(Top.pc))
  /\ UNCHANGED <<prog, symbols, fault>>

\* An expression statement, or an assignment to an existing name.
Use ==
  /\ (Running("use") \/ Running("set"))
  /\ Reads /\ To(After(Top.pc))
  /\ UNCHANGED <<prog, envs, symbols, gone, fault>>

\* A loop goes round again or ends; a branch is taken or not.
Enter == /\ (Running("while") \/ Running("if"))
         /\ Reads /\ To(Top.pc + 1)
         /\ UNCHANGED <<prog, envs, symbols, gone, fault>>

Leave ==
  /\ (Running("while") \/ Running("if"))
  /\ Reads
  /\ To(Beyond(Top.pc))
  /\ UNCHANGED <<prog, envs, symbols, gone, fault>>

\* `goto`, to a gotopoint of the same list.
Jump == /\ Running("goto") /\ To(Line.last)
        /\ UNCHANGED <<prog, envs, symbols, gone, fault>>

\* A function definition binds its name to the line of its body.
DefineFunction ==
  /\ Running("func")
  /\ BindTo(Line.name, [home |-> Top.env, at |-> Top.pc])
  /\ To(Beyond(Top.pc))
  /\ UNCHANGED <<prog, symbols, fault>>

\* A call: a new environment within that of the function.
Call ==
  /\ Running("call") /\ Reads /\ Len(frames) <= MaxCalls
  /\ LET b == Final(envs, Top.env, Line.name)
         f == The(envs, b[1], b[2]).value
         e == Len(frames)
     IN /\ envs' = [envs EXCEPT ![e] = [up |-> f.home, entries |-> <<>>]]
        /\ frames' = <<[src |-> Source(f.home), start |-> f.at + 1, pc |-> f.at + 1,
                        stop |-> prog[Source(f.home)][f.at].last, env |-> e]>>
                      \o [frames EXCEPT ![1].pc = After(Top.pc)]
  \* the address may be that of an environment freed before
  /\ \/ UNCHANGED symbols
     \/ symbols' = [i \in DOMAIN symbols |->
                      IF symbols[i].env = Freed THEN [symbols[i] EXCEPT !.env = Len(frames)]
                      ELSE symbols[i]]
  /\ UNCHANGED <<prog, gone, fault>>

\* A call returns: its environment is freed, and the symbols keep its address.
Return ==
  /\ frames # <<>> /\ Top.pc > Top.stop
  /\ frames' = Tail(frames)
  /\ LET e == Top.env
     IN IF e \in Calls
        THEN /\ envs' = [envs EXCEPT ![e] = [up |-> e, entries |-> <<>>]]
             /\ symbols' = [i \in DOMAIN symbols |->
                              IF symbols[i].env = e THEN [symbols[i] EXCEPT !.env = Freed]
                              ELSE symbols[i]]
             /\ gone' = {b \in gone : b[1] # e}
        ELSE UNCHANGED <<envs, symbols, gone>>
  /\ UNCHANGED <<prog, fault>>

\* gc.track(n): track it, though it was ignored.
GcTrack ==
  /\ Running("track") /\ Reads
  /\ LET s == Sync(envs, Top.env, symbols)
         e == Holder(envs, Top.env, Line.name)
     IN symbols' = IF Tracked(s, e, Line.name)
                      THEN [i \in DOMAIN s |->
                              IF s[i].env = e /\ s[i].name = Line.name
                              THEN [s[i] EXCEPT !.ignored = FALSE] ELSE s[i]]
                      ELSE <<[env |-> e, name |-> Line.name, ignored |-> FALSE]>> \o s
  /\ To(After(Top.pc))
  /\ UNCHANGED <<prog, envs, gone, fault>>

\* gc.ignore(n): if it is tracked.
GcIgnore ==
  /\ Running("ignore") /\ Reads
  /\ LET s == Sync(envs, Top.env, symbols)
         e == Holder(envs, Top.env, Line.name)
     IN symbols' = [i \in DOMAIN s |->
                         IF s[i].env = e /\ s[i].name = Line.name
                         THEN [s[i] EXCEPT !.ignored = TRUE] ELSE s[i]]
  /\ To(After(Top.pc))
  /\ UNCHANGED <<prog, envs, gone, fault>>

\* gc.track_all() and gc.ignore_all()
GcTrackAll ==
  /\ Running("track_all")
  /\ symbols' = TrackAll(envs, Top.env, symbols, TRUE)
  /\ To(After(Top.pc))
  /\ UNCHANGED <<prog, envs, gone, fault>>

GcIgnoreAll ==
  /\ Running("ignore_all")
  /\ LET s == Sync(envs, Top.env, symbols)
     IN symbols' = [i \in DOMAIN s |-> [s[i] EXCEPT !.ignored = TRUE]]
  /\ To(After(Top.pc))
  /\ UNCHANGED <<prog, envs, gone, fault>>

\* gc.collect()
GcCollect ==
  /\ Running("collect")
  /\ LET s == Sync(envs, Top.env, symbols)
         after == Collected(envs, Top.env, s, References(prog, Top.src, Top.pc))
     IN /\ envs' = after.envs
        /\ symbols' = after.symbols
        /\ gone' = gone \cup after.gone
  /\ To(After(Top.pc))
  /\ UNCHANGED <<prog, fault>>

FirstFrame(p) == [src |-> "main", start |-> 1, pc |-> 1, stop |-> Len(p.main), env |-> Main]

\* The entries a module leaves when it has run: all its definitions.
LibEntries(p) ==
  LET at == SetToSortSeq({i \in DOMAIN p.lib : Funcs(p.lib, i) = {} /\ p.lib[i].op \in {"decl", "func"}}, <)
  IN [k \in DOMAIN at |->
        Entry(p.lib[at[k]].name,
              IF p.lib[at[k]].op = "func" THEN [home |-> Lib, at |-> at[k]] ELSE p.lib[at[k]].value,
              NoAlias)]

\* The program has imported the module: main holds copies under qualified names.
Init ==
  /\ prog \in Programs
  /\ frames = <<FirstFrame(prog)>>
  /\ envs = [e \in EnvIds |->
              [up |-> e,
               entries |->
                 CASE e = Lib -> LibEntries(prog)
                   [] e = Main -> [k \in DOMAIN LibEntries(prog) |->
                                     [LibEntries(prog)[k] EXCEPT !.name = Qualified(@)]]
                   [] OTHER -> <<>>]]
  /\ symbols = <<>>
  /\ gone = {}
  /\ fault = {}

Next ==
  \/ Declare \/ Point \/ Use \/ Enter \/ Leave \/ Jump \/ DefineFunction \/ Call \/ Return
  \/ GcTrack \/ GcIgnore \/ GcTrackAll \/ GcIgnoreAll \/ GcCollect \/ Fail

Spec == Init /\ [][Next]_vars

-----------------------------------------------------------------------------
(* Properties. *)

(* The programs of which the collector misjudges what is still needed. *)

\* A collection on the last line of a loop does not see the loop go round.
CollectsAtLoopEnd(text) ==
  \E i, j \in DOMAIN text :
    text[i].op = "collect" /\ text[j].op \in Loops /\ j < i /\ text[j].last = i

\* A jump back leads to lines before the current one.
JumpsBack(text) == \E i \in DOMAIN text : text[i].op = "goto" /\ text[i].last <= i

\* The body of a function called under another name is not found.
CallsByValue(text) == \E i \in DOMAIN text : text[i].op = "decl" /\ text[i].reads # {}

\* A pointer in a call is not seen from a function it calls.
HidesPointer(text) == \E i \in DOMAIN text : text[i].op = "point" /\ Funcs(text, i) # {}

\* A function defined in a loop that has ended is passed over.
DefinesInLoop(text) ==
  \E i, j \in DOMAIN text : text[i].op = "func" /\ j \in Enclosing(text, i) /\ text[j].op \in Loops

\* The main program is not scanned by a collection of a module.
CollectsInModule(p) == \E i \in DOMAIN p.lib : p.lib[i].op = "collect"

Misjudged(p) ==
  \/ CollectsInModule(p)
  \/ \E src \in DOMAIN p :
       \/ CollectsAtLoopEnd(p[src])
       \/ JumpsBack(p[src])
       \/ CallsByValue(p[src])
       \/ HidesPointer(p[src])
       \/ DefinesInLoop(p[src])

\* A program loses no name it still needs, unless it is one of those.
LossesExplained == fault # {} => Misjudged(prog)

====
