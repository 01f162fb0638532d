------------------------------ MODULE ApiMacros ------------------------------
(***************************************************************************)
(* The attribute macros of ic-canister-macros while one crate is compiled  *)
(* (api.rs, and idl.rs of ic-canister).  Each use is a separate run of the *)
(* macro; what it leaves for the ones after it is in four global           *)
(* variables.  The compiler expands macros in the order they are written;  *)
(* an error does not stop it, but nothing is built.                        *)
(***************************************************************************)
EXTENDS Integers, Sequences, FiniteSets

CONSTANTS
  ApiNames,    \* names of methods
  InitArgs,    \* argument lists of init methods
  MaxMethods,  \* bound: methods with an attribute, at most two of a name
  MaxIdls,     \* bound: uses of generate_idl!
  Nothing      \* None

ASSUME MacrosAssumption == MaxMethods \in Nat /\ MaxIdls \in Nat

VARIABLES
  methods,     \* METHODS: the mode of the methods that wait for an IDL
  init,        \* INIT
  exports,     \* METHODS_EXPORTS: how often traits have each export name
  getter,      \* is there a STATE_GETTER?
  exported,    \* how often each export name was used
  idls,        \* the IDLs in the program: init arguments and methods
  written,     \* ghost: the methods with an attribute, and their modes
  repeated,    \* ghost: the names that two methods have
  broken       \* the crate does not compile or panics when it is run

macroVars == << methods, init, exports, getter, exported, idls, written, repeated, broken >>

MethodTypes == {"init", "query", "update", "pre_upgrade", "post_upgrade"}

\* What the compiler sees of a method.  Its form is good, or it has a generic
\* that is no lifetime, an argument that is a pattern, takes self by value or
\* does not take self.
Signature == [mode : MethodTypes,
              in_trait : BOOLEAN, returns : BOOLEAN, args : BOOLEAN,
              form : {"good", "generic", "pattern", "by_value", "no_self"}]

IsManagement(mode) == mode \in {"init", "pre_upgrade", "post_upgrade"}
Management(sig) == IsManagement(sig.mode)

\* The export name: of a method for the management, canister_init and so on,
\* whatever the name.
ExportNames == ApiNames \cup MethodTypes
ExportName(name, mode) == IF IsManagement(mode) THEN mode ELSE name

MacrosInit ==
  /\ methods = << >> /\ init = Nothing /\ getter = FALSE
  /\ exports = [x \in ExportNames |-> 0] /\ exported = [x \in ExportNames |-> 0]
  /\ idls = << >> /\ written = << >> /\ repeated = {} /\ broken = FALSE

\* The methods of both; of a name in both, the one of the left.
Both(left, right) ==
  [n \in DOMAIN left \cup DOMAIN right |-> IF n \in DOMAIN left THEN left[n] ELSE right[n]]

\* The panics and errors of api_method and of store_candid_definitions.
Refused(sig) ==
  \/ sig.mode = "init" /\ sig.in_trait
  \/ Management(sig) /\ sig.returns
  \/ sig.mode \in {"pre_upgrade", "post_upgrade"} /\ sig.args
  \/ sig.form # "good"

\* store_candid_definitions.
StoreCandidDefinitions(name, sig, args) ==
  /\ init' = IF sig.mode = "init" THEN args ELSE init
  /\ methods' = IF Management(sig) THEN methods ELSE Both([n \in {name} |-> sig.mode], methods)

\* api_method: #[init], #[query], #[update], #[pre_upgrade], #[post_upgrade].
\* A refused method may have been stored; nothing comes of it.  Two methods of
\* different impls or traits may have one name: the later one replaces what
\* METHODS has of it.  A name that is exported twice does not link, or is a
\* query and an update of one name, which no canister may have.
ApiMethod(name, sig, args) ==
  /\ name \notin repeated /\ Cardinality(DOMAIN written) + Cardinality(repeated) < MaxMethods
  /\ IF Refused(sig)
     THEN broken' = TRUE /\ UNCHANGED << methods, init, exports, exported, written, repeated >>
     ELSE /\ StoreCandidDefinitions(name, sig, args)
          /\ written' = Both([n \in {name} |-> sig.mode], written)
          /\ repeated' = repeated \cup ({name} \cap DOMAIN written)
          /\ LET x == ExportName(name, sig.mode)
             IN  /\ exports' = [exports EXCEPT ![x] = @ + IF sig.in_trait THEN 1 ELSE 0]
                 /\ exported' = [exported EXCEPT ![x] = @ + IF sig.in_trait THEN 0 ELSE 1]
                 /\ broken' = (exported'[x] > 1)
  /\ UNCHANGED << getter, idls >>

\* state_getter: a second one replaces the first and is an error.
StateGetter ==
  /\ getter' = TRUE
  /\ broken' = (broken \/ getter)
  /\ UNCHANGED << methods, init, exports, exported, idls, written, repeated >>

\* generate_exports! exports all trait methods there have been and takes the
\* getter.
GenerateExports ==
  /\ (\E x \in ExportNames : exports[x] > 0) \/ getter
  /\ exported' = [x \in ExportNames |-> exported[x] + exports[x]]
  /\ getter' = FALSE
  /\ broken' = (broken \/ \E x \in ExportNames : exported'[x] > 1)
  /\ UNCHANGED << methods, init, exports, idls, written, repeated >>

\* Mutant: the methods stay for the next IDL.
GenerateIdlKeeps ==
  /\ Len(idls) < MaxIdls
  /\ idls' = Append(idls, [init |-> init, methods |-> methods])
  /\ init' = IF init = Nothing THEN Nothing ELSE << >>
  /\ UNCHANGED << methods, exports, getter, exported, written, repeated, broken >>

\* generate_idl!: the methods go into the IDL; of init, the arguments go and
\* an empty list remains.
GenerateIdl ==
  /\ Len(idls) < MaxIdls
  /\ idls' = Append(idls, [init |-> init, methods |-> methods])
  /\ init' = IF init = Nothing THEN Nothing ELSE << >>
  /\ methods' = << >>
  /\ UNCHANGED << exports, getter, exported, written, repeated, broken >>

\* The program calls Idl::merge on the first with the second, which panics
\* when both have init arguments.  A name that is in both is then in the list
\* twice; the model keeps the first.
MergeIdls ==
  /\ Len(idls) >= 2
  /\ LET a == idls[1]
         b == idls[2]
     IN  /\ broken' = (broken \/ (a.init # Nothing /\ b.init # Nothing))
         /\ idls' = << [init |-> IF a.init # Nothing THEN a.init ELSE b.init,
                        methods |-> Both(a.methods, b.methods)] >>
                    \o SubSeq(idls, 3, Len(idls))
  /\ UNCHANGED << methods, init, exports, getter, exported, written, repeated >>

MacrosNext ==
  /\ ~broken
  /\ \/ \E name \in ApiNames, sig \in Signature, args \in InitArgs : ApiMethod(name, sig, args)
     \/ StateGetter \/ GenerateExports \/ GenerateIdl \/ MergeIdls

MacrosSpec == MacrosInit /\ [][MacrosNext]_macroVars

----------------------------------------------------------------------------
\* The globals have their types.
MacrosTypeOK ==
  /\ DOMAIN methods \subseteq DOMAIN written
  /\ repeated \subseteq DOMAIN written
  /\ init \in InitArgs \cup {Nothing, << >>}
  /\ exports \in [ExportNames -> Nat] /\ exported \in [ExportNames -> Nat]
  /\ Len(idls) <= MaxIdls

\* Every query and update method of the crate is in exactly one IDL, or waits
\* for one, with the mode it was written with, however attributes,
\* generate_idl!, generate_exports! and merges follow one another, unless
\* another method has its name; a crate that compiles exports every method
\* outside of traits once, two of one name included.
IdlListsEachMethodOnce ==
  LET listed(n) == {i \in DOMAIN idls : n \in DOMAIN idls[i].methods}
                      \cup {0 : k \in DOMAIN methods \cap {n}}
  IN  \A n \in DOMAIN written :
        /\ written[n] \in {"query", "update"} /\ n \notin repeated =>
             /\ Cardinality(listed(n)) = 1
             /\ \A i \in listed(n) :
                  written[n] = IF i = 0 THEN methods[n] ELSE idls[i].methods[n]
        /\ LET x == ExportName(n, written[n])
           IN  ~broken /\ exports[x] = 0 => exported[x] = 1

Initials == InitArgs \cup {Nothing, << >>}
ModeMap == UNION {[names -> MethodTypes] : names \in SUBSET ApiNames}

\* The methods that wait, and those of each IDL, have been written; those with
\* a name of their own are as they were written, and no two of these maps have
\* one of them in common.
MethodsInv ==
  /\ repeated \subseteq DOMAIN written /\ DOMAIN methods \subseteq DOMAIN written
  /\ \A i \in DOMAIN idls : DOMAIN idls[i].methods \subseteq DOMAIN written
  /\ \A n \in DOMAIN methods \ repeated : methods[n] = written[n]
  /\ \A i \in DOMAIN idls : \A n \in DOMAIN idls[i].methods \ repeated :
       n \notin DOMAIN methods /\ idls[i].methods[n] = written[n]
  /\ \A i, j \in DOMAIN idls : \A n \in DOMAIN idls[i].methods \ repeated :
       n \in DOMAIN idls[j].methods => i = j
  /\ \A n \in DOMAIN written \ repeated : written[n] \in {"query", "update"} =>
       n \in DOMAIN methods \/ \E i \in DOMAIN idls : n \in DOMAIN idls[i].methods

\* A method is exported when it is written, or waits with its trait; no name
\* is exported twice.
ExportsInv ==
  /\ exports \in [ExportNames -> Nat] /\ exported \in [ExportNames -> Nat]
  /\ \A n \in DOMAIN written : LET x == ExportName(n, written[n])
                               IN  exports[x] + exported[x] >= 1
  /\ ~broken => \A x \in ExportNames : exported[x] <= 1

\* What makes IdlListsEachMethodOnce inductive.
MacrosInv ==
  /\ methods \in ModeMap /\ written \in ModeMap /\ init \in Initials
  /\ idls \in Seq([init : Initials, methods : ModeMap]) /\ broken \in BOOLEAN
  /\ MethodsInv /\ ExportsInv
=============================================================================
