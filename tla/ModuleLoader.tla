---------------------------- MODULE ModuleLoader ----------------------------
(***************************************************************************)
(* The page of the script editor (static/monaco/lua-editor.html) and the   *)
(* module loader that puts it together (static/monaco/loader.js, class     *)
(* ModuleManager).  The page has script tags, which run in their order,    *)
(* and then requires its modules; later the editor requires the one of its *)
(* language.  A script defines modules by name, or one without a name,     *)
(* which the loader keeps until the load event of a script it has asked    *)
(* for.  Those arrive in any order, or fail.                               *)
(*                                                                         *)
(* "require", "exports" and "module" count as resolved at once and are     *)
(* left out of the dependencies; so is the plugin of the page, which its   *)
(* script defines before it is used.  A script that defines a module       *)
(* without a name does so last.  Factories return; what they require, they *)
(* require later.                                                          *)
(***************************************************************************)
EXTENDS Integers, SequencesExt

CONSTANTS
  Modules,   \* names of modules; a module's script has its name
  Anonymous, \* define without a name
  Resources, \* the modules that are no scripts, and are loaded by a plugin
  Contents,  \* script -> its defines, in their order: [name, deps]
  Tags,      \* the script tags of the page, in their order
  Requires   \* the calls of require: dependencies of each, the first by the page

ASSUME LoaderAssumption ==
  /\ Anonymous \notin Modules /\ Resources \subseteq Modules /\ Requires # <<>>
  /\ Tags \in Seq(Modules) /\ Requires \in Seq(Seq(Modules))
  /\ Contents \in [Modules -> Seq([name : Modules \union {Anonymous}, deps : Seq(Modules)])]

\* A require makes a module too, under a name that nobody else uses.
Calls == 1..Len(Requires)
Ids == Modules \union Calls

VARIABLES
  modules,  \* _modules2: [deps, left, complete, error, from] or Undefined
  asked,    \* _knownModules2: whose script was asked for
  inverse,  \* _inverseDependencies2: the modules that wait for a module
  current,  \* _currentAnonymousDefineCall: [deps, from] or Nothing
  ran,      \* history: the factories that ran, in their order: [id, deps]
  tag,      \* the script tag of the page that is next
  loading,  \* scripts that were asked for and have not arrived
  failed    \* history: scripts that did not arrive

manager == <<modules, asked, inverse, current, ran>>
vars == <<manager, tag, loading, failed>>

Undefined == [from |-> "nobody"]
Nothing == [from |-> "nobody"]

Init ==
  /\ modules = [m \in Ids |-> Undefined]
  /\ asked = {} /\ inverse = [m \in Ids |-> <<>>]
  /\ current = Nothing /\ ran = <<>>
  /\ tag = 1 /\ loading = {} /\ failed = {}

\* The ModuleManager, as the methods below change it.
This == [modules |-> modules, asked |-> asked, inverse |-> inverse, current |-> current, ran |-> ran]

Becomes(new) ==
  /\ modules' = new.modules /\ asked' = new.asked /\ inverse' = new.inverse
  /\ current' = new.current /\ ran' = new.ran

-----------------------------------------------------------------------------
\* Op from left to right, as FoldLeft, each step's result evaluated before the next.
InTurn(Op(_, _), this, s) ==
  FoldLeft(LAMBDA t, x : CHOOSE new \in {Op(old, x) : old \in {t}} : TRUE, this, s)

\* Mutant: the modules that wait are not told.
CompleteAlone(this, m) ==
  IF this.modules[m].complete THEN this
  ELSE [this EXCEPT !.modules[m].complete = TRUE, !.modules[m].deps = <<>>,
                    !.inverse[m] = <<>>,
                    !.ran = Append(@, [id |-> m, deps |-> this.modules[m].deps])]

\* _onModuleComplete: the factory runs, and every module that waits has one
\* dependency less to wait for.
RECURSIVE OnModuleComplete(_, _)
OnModuleComplete(this, m) ==
  LET done == [this EXCEPT !.modules[m].complete = TRUE, !.modules[m].deps = <<>>,
                           !.inverse[m] = <<>>,
                           !.ran = Append(@, [id |-> m, deps |-> this.modules[m].deps])]
      Told(t, g) ==
        LET told == [t EXCEPT !.modules[g].left = @ - 1]
        IN  IF told.modules[g].left = 0 THEN OnModuleComplete(told, g) ELSE told
  IN  IF this.modules[m].complete THEN this ELSE InTurn(Told, done, this.inverse[m])

\* What can be reached from a set in a graph, the set itself included.
RECURSIVE Reach(_, _)
Reach(next, S) ==
  LET T == S \union UNION {next[m] : m \in S} IN IF T = S THEN S ELSE Reach(next, T)

\* _hasDependencyPath: dependencies of a module that is complete are forgotten.
HasDependencyPath(this, n, m) ==
  m \in Reach([k \in Ids |-> IF this.modules[k] = Undefined THEN {} ELSE ToSet(this.modules[k].deps)],
              {n})

Fail(this, m) == [this EXCEPT !.modules[m].complete = TRUE, !.modules[m].error = TRUE]

\* Mutant: a dependency that is under way counts as resolved.
ResolveKnown(this, m, n) ==
  IF this.modules[m].error THEN this
  ELSE IF this.modules[n] # Undefined /\ this.modules[n].complete
       THEN IF this.modules[n].error THEN Fail(this, m) ELSE [this EXCEPT !.modules[m].left = @ - 1]
       ELSE IF n \in this.asked \/ HasDependencyPath(this, n, m)
       THEN [this EXCEPT !.modules[m].left = @ - 1]
       ELSE [this EXCEPT !.inverse[n] = Append(@, m),
                         !.asked = IF this.modules[n] = Undefined THEN @ \union {n} ELSE @]

\* One dependency in _resolve: it is there, it has failed and the rest is not
\* looked at, it closes a cycle and is not waited for, or it is waited for and,
\* if nobody has defined it, its script asked for (_loadModule).
ResolveOne(this, m, n) ==
  IF this.modules[m].error THEN this
  ELSE IF this.modules[n] # Undefined /\ this.modules[n].complete
       THEN IF this.modules[n].error THEN Fail(this, m) ELSE [this EXCEPT !.modules[m].left = @ - 1]
       ELSE IF HasDependencyPath(this, n, m)
       THEN [this EXCEPT !.modules[m].left = @ - 1]
       ELSE [this EXCEPT !.inverse[n] = Append(@, m),
                         !.asked = IF this.modules[n] = Undefined THEN @ \union {n} ELSE @]

Resolve(this, m) ==
  LET resolved == InTurn(LAMBDA t, n : ResolveOne(t, m, n), this, this.modules[m].deps)
  IN  IF ~resolved.modules[m].error /\ resolved.modules[m].left = 0
      THEN OnModuleComplete(resolved, m) ELSE resolved

Defined(deps, from) ==
  [deps |-> deps, left |-> Len(deps), complete |-> FALSE, error |-> FALSE, from |-> from]

\* Mutant: a second definition takes the place of the first.
DefineAgain(this, m, deps, from) == Resolve([this EXCEPT !.modules[m] = Defined(deps, from)], m)

\* defineModule: the first definition counts.
DefineModule(this, m, deps, from) ==
  IF this.modules[m] # Undefined THEN this
  ELSE Resolve([this EXCEPT !.modules[m] = Defined(deps, from)], m)

\* enqueueDefineAnonymousModule throws if there is one already.
Enqueue(this, deps, from) ==
  IF this.current # Nothing THEN this
  ELSE [this EXCEPT !.current = [deps |-> deps, from |-> from]]

Execute(this, s) ==
  InTurn(LAMBDA t, def : IF def.name = Anonymous THEN Enqueue(t, def.deps, s)
                         ELSE DefineModule(t, def.name, def.deps, s),
         this, Contents[s])

\* Mutant: the load event looks at the pending definition of no script.
OnLoadNothing(this, m) == this

\* _onLoad: the pending definition is that of the script that was loaded.
OnLoad(this, m) ==
  IF this.current = Nothing THEN this
  ELSE DefineModule([this EXCEPT !.current = Nothing], m, this.current.deps, this.current.from)

\* The modules that wait for m, for one that waits for it, and so on.
Wait(this, m) == Reach([k \in Ids |-> ToSet(this.inverse[k])], {m})

\* _onLoadError: everything that waits has failed, a module that was completed
\* by another script while its own was under way too.
OnLoadError(this, m) ==
  LET present == IF this.modules[m] = Undefined
                 THEN [this EXCEPT !.modules[m] = Defined(<<>>, m)] ELSE this
  IN  [present EXCEPT !.modules =
         [w \in Ids |-> IF w \in Wait(present, m) THEN Fail(present, w).modules[w] ELSE @[w]]]

-----------------------------------------------------------------------------
\* The scripts that are asked for by a change are under way.
Asking(new, arrived) == loading' = (loading \ arrived) \union (new.asked \ asked)

\* A script tag of the page; its script may fail to load.
Tag ==
  /\ tag <= Len(Tags)
  /\ tag' = tag + 1
  /\ \/ \E new \in {Execute(This, Tags[tag])} : Becomes(new) /\ Asking(new, {}) /\ UNCHANGED failed
     \/ failed' = failed \union {Tags[tag]} /\ UNCHANGED <<manager, loading>>

\* The page's require is its last script; the others come when the editor is
\* there.
Require(r) ==
  /\ tag = Len(Tags) + 1 /\ modules[r] = Undefined
  /\ r > 1 => modules[1] # Undefined /\ modules[1].complete /\ ~modules[1].error
  /\ \E new \in {DefineModule(This, r, Requires[r], r)} : Becomes(new) /\ Asking(new, {})
  /\ UNCHANGED <<tag, failed>>

\* A script runs; its load event follows at once.
ScriptLoaded(s) ==
  /\ s \in loading \ Resources
  /\ \E new \in {OnLoad(Execute(This, s), s)} : Becomes(new) /\ Asking(new, {s})
  /\ UNCHANGED <<tag, failed>>

ScriptFails(s) ==
  /\ s \in loading \ Resources
  /\ \E new \in {OnLoadError(This, s)} : Becomes(new) /\ Asking(new, {s})
  /\ failed' = failed \union {s}
  /\ UNCHANGED tag

\* _loadPluginDependency: what the plugin loads becomes a module without
\* dependencies.
ResourceLoaded(s) ==
  /\ s \in loading \intersect Resources
  /\ \E new \in {DefineModule(This, s, <<>>, s)} : Becomes(new) /\ Asking(new, {s})
  /\ UNCHANGED <<tag, failed>>

\* The plugin's error is reported, but no module learns of it.
ResourceFails(s) ==
  /\ s \in loading \intersect Resources
  /\ loading' = loading \ {s} /\ failed' = failed \union {s}
  /\ UNCHANGED <<manager, tag>>

Arrives(s) == ScriptLoaded(s) \/ ScriptFails(s) \/ ResourceLoaded(s) \/ ResourceFails(s)

Next ==
  \/ Tag
  \/ \E r \in Calls : Require(r)
  \/ \E s \in loading : Arrives(s)

Spec == Init /\ [][Next]_vars

\* Each script and each resource arrives or fails some time.
Fairness == \A s \in Modules : WF_vars(Arrives(s))

FairSpec == Spec /\ Fairness

-----------------------------------------------------------------------------
\* Properties.

\* Definitions have their parts; a module waits for as many others as it is
\* listed with, and waits for none once it is complete without an error.
Waiting(m) == {<<n, i>> \in Ids \X (1..Len(Requires) + Cardinality(Modules)) :
                 i \in DOMAIN inverse[n] /\ inverse[n][i] = m}
TypeOK ==
  /\ asked \subseteq Modules /\ loading \subseteq asked /\ failed \subseteq Modules
  /\ tag \in 1..(Len(Tags) + 1)
  /\ \A m \in Ids : inverse[m] \in Seq(Ids)
  /\ \A m \in Ids : modules[m] # Undefined =>
       /\ modules[m].deps \in Seq(Modules) /\ modules[m].from \in Ids
       /\ modules[m].complete \in BOOLEAN /\ modules[m].error \in BOOLEAN
       /\ ~modules[m].error => modules[m].left = Cardinality(Waiting(m))

\* A factory runs once, and after those of all its dependencies, in whatever
\* order their scripts arrive; the modules of the page are in no circle.
FactoriesInOrder ==
  \A i \in DOMAIN ran :
    /\ \A j \in 1..(i - 1) : ran[j].id # ran[i].id
    /\ \A d \in ToSet(ran[i].deps) : \E j \in 1..(i - 1) : ran[j].id = d

\* A module that its script defines without a name gets that script's factory:
\* also when a script tag of the page has left such a definition behind, which
\* the next load event of any script takes up.
OwnDefinition ==
  \A m \in Modules : modules[m] # Undefined =>
    \/ modules[m].from = m
    \/ \E i \in DOMAIN Contents[modules[m].from] : Contents[modules[m].from][i].name = m

\* Every require is answered, by its callback or with an error, once what it
\* waits for has arrived or failed: unless a plugin's resource has failed, which
\* leaves it without an answer.
Answered(r) == modules[r] # Undefined /\ modules[r].complete
RequiresAnswered ==
  \A r \in Calls : modules[r] # Undefined ~> Answered(r) \/ failed \intersect Resources # {}
=============================================================================
