---------------------------- MODULE AlphaRegistry ----------------------------
(***************************************************************************)
(* The alphas of a process (aqc/alpha/): the class-level AlphaRegistry     *)
(* that import-time decorators and callers fill (alpha_registry.py), the   *)
(* AlphaFactory that builds and fits instances of what is registered       *)
(* (alpha_factory.py), and the life of an instance (alpha_base.py).        *)
(***************************************************************************)
EXTENDS Integers, Sequences, FiniteSetsExt, SequencesExt, Selections

CONSTANTS
  Names,        \* names in their sorted order, a sequence
  Classes,      \* what each class raises: [class -> "nothing", "TypeError" by
                \* its constructor, "KeyError" or "ValueError" by its fit]
  Categories,
  MaxCreated    \* bound on the alphas built

(* Names are told apart, as those of a dictionary are.                     *)
ASSUME RegistryAssumption ==
  /\ Names \in Seq(ToSet(Names)) /\ MaxCreated \in Nat
  /\ \A i, j \in DOMAIN Names : Names[i] = Names[j] => i = j

VARIABLES
  registry,     \* AlphaRegistry._registry: name to class
  categories,   \* AlphaRegistry._categories
  created       \* AlphaFactory._created

registryVars == <<registry, categories, created>>

EmptyDict == [name \in {} |-> "-"]
Put(dict, name, value) ==
  [n \in DOMAIN dict \cup {name} |-> IF n = name THEN value ELSE dict[n]]
Pop(dict, name) == [n \in DOMAIN dict \ {name} |-> dict[n]]
Registered == DOMAIN registry

----------------------------------------------------------------------------
RegistryInit == registry = EmptyDict /\ categories = EmptyDict /\ created = <<>>

(* register, by a call or by the decorator: a name that is taken is        *)
(* overwritten, with a warning.                                            *)
Register(name, class, category) ==
  /\ registry' = Put(registry, name, class)
  /\ categories' = Put(categories, name, category)
  /\ UNCHANGED created

(* unregister and clear, of the registry.  (Slip: the category is left.)   *)
UnregisterClass(name) ==
  /\ registry' = Pop(registry, name)
  /\ UNCHANGED <<categories, created>>

Unregister(name) ==
  /\ registry' = Pop(registry, name)
  /\ categories' = Pop(categories, name)
  /\ UNCHANGED created

ClearRegistry ==
  /\ registry' = EmptyDict /\ categories' = EmptyDict
  /\ UNCHANGED created

ListByCategory(category) ==
  Select(Names, {i \in DOMAIN Names : /\ Names[i] \in DOMAIN categories
                                      /\ categories[Names[i]] = category})

----------------------------------------------------------------------------
(* create: the class is looked up, built and, with training data, fitted;  *)
(* only then is the alpha the factory's.                                   *)
Outcome(name, train) ==
  IF name \notin Registered THEN "KeyError"
  ELSE LET fault == Classes[registry[name]]
       IN  IF fault = "TypeError" \/ (train /\ fault # "nothing") THEN fault ELSE "nothing"

Alpha(name, train) ==
  [name |-> name, class |-> registry[name], trained_on |-> train, is_fitted |-> train,
   signals |-> 0, cached_metrics |-> FALSE]

(* The alphas of some names, up to the first one that raises one of these. *)
UpTo(names, train, fatal) ==
  LET stops == {i \in DOMAIN names : Outcome(names[i], train) \in fatal}
      good == Select(names, {i \in DOMAIN names : /\ \A j \in stops : i < j
                                                  /\ Outcome(names[i], train) = "nothing"})
  IN  [alphas |-> [i \in DOMAIN good |-> Alpha(good[i], train)],
       raised |-> IF stops = {} THEN "nothing" ELSE Outcome(names[Min(stops)], train)]

(* What was built before an exception stays in the factory, although the   *)
(* caller does not receive it.                                             *)
Build(names, train, fatal) ==
  LET alphas == UpTo(names, train, fatal).alphas
  IN  /\ Len(created) + Len(alphas) <= MaxCreated
      /\ created' = created \o alphas
      /\ UNCHANGED <<registry, categories>>

Errors == {"KeyError", "TypeError", "ValueError"}

(* create_all skips a name with a KeyError or a TypeError and goes on;     *)
(* create and create_by_category let every exception through.              *)
Create(name, train) == Build(<<name>>, train, Errors)
CreateAll(names, train) == Build(names, train, {"ValueError"})
CreateByCategory(category, train) == Build(ListByCategory(category), train, Errors)

ClearFactory == created' = <<>> /\ UNCHANGED <<registry, categories>>

(* The life of an alpha: fit, emit_signal, cache_metrics and reset, which  *)
(* leaves it fitted.                                                       *)
Update(i, alpha) == created' = [created EXCEPT ![i] = alpha]
                    /\ UNCHANGED <<registry, categories>>

Fit(i) == Classes[created[i].class] = "nothing" /\ Update(i, [created[i] EXCEPT !.is_fitted = TRUE])
EmitSignal(i) == created[i].signals < 1 /\ Update(i, [created[i] EXCEPT !.signals = @ + 1])
CacheMetrics(i) == Update(i, [created[i] EXCEPT !.cached_metrics = TRUE])
Reset(i) == Update(i, [created[i] EXCEPT !.signals = 0, !.cached_metrics = FALSE])

RegistryNext ==
  \/ \E name \in ToSet(Names) :
       \/ \E class \in DOMAIN Classes, category \in Categories : Register(name, class, category)
       \/ Unregister(name)
  \/ ClearRegistry
  \/ \E train \in BOOLEAN :
       \/ \E name \in ToSet(Names) : Create(name, train)
       \/ CreateAll(Names, train)
       \/ \E category \in Categories : CreateByCategory(category, train)
  \/ ClearFactory
  \/ \E i \in DOMAIN created : Fit(i) \/ EmitSignal(i) \/ CacheMetrics(i) \/ Reset(i)

RegistrySpec == RegistryInit /\ [][RegistryNext]_registryVars

----------------------------------------------------------------------------
(* However registrations, removals and failing constructions follow each   *)
(* other: a category only lists names that can be looked up, so that       *)
(* create_by_category never fails for a missing class; no name is listed   *)
(* twice or missing; and every alpha of the factory was built from a class *)
(* that does not refuse to be built and is fitted if it was given training *)
(* data, also after calls that raised halfway and after the class of its   *)
(* name was replaced.                                                      *)
FactoryIsSound ==
  /\ \A category \in Categories :
       LET names == ListByCategory(category)
       IN  /\ ToSet(names) \subseteq Registered
           /\ UpTo(names, FALSE, {"KeyError"}).raised = "nothing"
  /\ UNION {ToSet(ListByCategory(category)) : category \in Categories} = Registered
  /\ \A c, d \in Categories :
       \A i \in DOMAIN ListByCategory(c), j \in DOMAIN ListByCategory(d) :
         ListByCategory(c)[i] = ListByCategory(d)[j] => c = d /\ i = j
  /\ \A i \in DOMAIN created :
       /\ Classes[created[i].class] # "TypeError"
       /\ created[i].trained_on => created[i].is_fitted /\ Classes[created[i].class] = "nothing"
=============================================================================
