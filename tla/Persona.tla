------------------------------ MODULE Persona -------------------------------
(* The persona catalogue (crates/lorepia-persona): personas with revisions,   *)
(* a global default, per-character policies, the persisted envelope, and the  *)
(* immutable binding resolved for a play.  A text is its length in bytes; a   *)
(* blank or malformed text has length 0.                                      *)
EXTENDS Integers, Sequences, FiniteSets, SequencesExt, FiniteSetsExt

CONSTANTS
    PersonaIds,       \* ids a host may give
    Characters,       \* character cards
    PersonaEditors,   \* open editors, each holding what it last read
    PromptSizes,      \* lengths of the texts typed into a draft
    StoredStates,     \* persisted envelopes found at start, valid or not
    MaxPersonas, MaxPolicies, MaxPersonaBytes, MaxTotalBytes,
    MaxPersonaSteps   \* bound on the catalogue generation explored

VARIABLE per   \* cat, the catalogue; editors, what each has read; for the properties,
               \* born, the generation each id was last added at, and overwrote, whose
               \* unseen text an update has replaced
perVars == <<per>>

Nobody == 0
UseDefault == -1

NoPersonas == [generation |-> 0, personas |-> [i \in {} |-> 0], default |-> Nobody,
               policies |-> [c \in {} |-> 0], total |-> 0]

TotalOf(personas) == MapThenSumSet(LAMBDA i : personas[i].size, DOMAIN personas)

-----------------------------------------------------------------------------
(* The persisted envelope.                                                    *)

DraftValid(size) == size \in 1..MaxPersonaBytes

\* Elements are validated and charged one by one, and one more than the limit
\* is already too many.
BoundedWire(wire) ==
    /\ Len(wire.personas) <= MaxPersonas
    /\ Len(wire.policies) <= MaxPolicies
    /\ \A i \in DOMAIN wire.personas : wire.personas[i].rev > 0 /\ DraftValid(wire.personas[i].size)
    /\ MapThenSumSet(LAMBDA i : wire.personas[i].size, DOMAIN wire.personas) <= MaxTotalBytes

Restorable(wire) ==
    LET ids == {wire.personas[i].id : i \in DOMAIN wire.personas} IN
    /\ BoundedWire(wire)
    /\ Cardinality(ids) = Len(wire.personas)
    /\ wire.default \in ids \cup {Nobody}
    /\ \A i \in DOMAIN wire.policies : wire.policies[i].persona \in ids \cup {Nobody}
    /\ Cardinality({wire.policies[i].card : i \in DOMAIN wire.policies}) = Len(wire.policies)

Restored(wire) ==
    LET at(id) == CHOOSE i \in DOMAIN wire.personas : wire.personas[i].id = id
        of(c)  == CHOOSE i \in DOMAIN wire.policies : wire.policies[i].card = c
    IN  [generation |-> wire.generation, default |-> wire.default,
         personas |-> [id \in {wire.personas[i].id : i \in DOMAIN wire.personas} |->
                         [rev |-> wire.personas[at(id)].rev, size |-> wire.personas[at(id)].size]],
         policies |-> [c \in {wire.policies[i].card : i \in DOMAIN wire.policies} |->
                         wire.policies[of(c)].persona],
         total |-> MapThenSumSet(LAMBDA i : wire.personas[i].size, DOMAIN wire.personas)]

InIdOrder(S) == [n \in 1..Cardinality(S) |-> CHOOSE x \in S : Cardinality({y \in S : y < x}) = n - 1]

Serialized(cat) ==
    LET ids == InIdOrder(DOMAIN cat.personas)
        cards == InIdOrder(DOMAIN cat.policies)
    IN  [generation |-> cat.generation, default |-> cat.default,
         personas |-> [n \in DOMAIN ids |-> [id |-> ids[n], rev |-> cat.personas[ids[n]].rev,
                                             size |-> cat.personas[ids[n]].size]],
         policies |-> [n \in DOMAIN cards |-> [card |-> cards[n], persona |-> cat.policies[cards[n]]]]]

-----------------------------------------------------------------------------
(* Operations.  A refused call changes nothing.                               *)

Cat == per.cat
PersonaStep(cat) == per' = [per EXCEPT !.cat = cat]
TotalAfter(old, new) == Cat.total - old + new

AddPersona(id, size) ==
    /\ id \notin DOMAIN Cat.personas
    /\ DraftValid(size)
    /\ Cardinality(DOMAIN Cat.personas) < MaxPersonas
    /\ TotalAfter(0, size) <= MaxTotalBytes
    /\ per' = [per EXCEPT !.born[id] = Cat.generation + 1, !.cat =
                [Cat EXCEPT !.personas = [i \in DOMAIN @ \cup {id} |->
                                            IF i = id THEN [rev |-> 1, size |-> size] ELSE @[i]],
                            !.total = TotalAfter(0, size), !.generation = @ + 1]]

ClosedEditor == [id |-> Nobody, rev |-> 0, seen |-> 0, born |-> 0]

OpenEditor(e, id) ==
    /\ id \in DOMAIN Cat.personas
    /\ per' = [per EXCEPT !.editors[e] = [id |-> id, rev |-> Cat.personas[id].rev,
                                          seen |-> Cat.personas[id].size, born |-> per.born[id]]]

\* Whose text an update by e replaces that e has not read: that of the persona it
\* opened, or of one added since under the same id.
Unseen(e) ==
    LET ed == per.editors[e] IN
    IF ed.seen = Cat.personas[ed.id].size THEN {}
    ELSE {IF ed.born = per.born[ed.id] THEN "opened" ELSE "recreated"}

\* Mutant: the revision is not compared.
UpdateBlindly(e, size) ==
    LET id == per.editors[e].id IN
    /\ id \in DOMAIN Cat.personas /\ DraftValid(size)
    /\ TotalAfter(Cat.personas[id].size, size) <= MaxTotalBytes
    /\ per' = [per EXCEPT
         !.cat = [Cat EXCEPT !.personas[id] = [rev |-> @.rev + 1, size |-> size],
                             !.total = TotalAfter(Cat.personas[id].size, size), !.generation = @ + 1],
         !.overwrote = @ \cup Unseen(e), !.editors[e] = ClosedEditor]

UpdatePersona(e, size) ==
    LET id == per.editors[e].id IN
    /\ id \in DOMAIN Cat.personas /\ DraftValid(size)
    /\ Cat.personas[id].rev = per.editors[e].rev
    /\ TotalAfter(Cat.personas[id].size, size) <= MaxTotalBytes
    /\ per' = [per EXCEPT
         !.cat = [Cat EXCEPT !.personas[id] = [rev |-> @.rev + 1, size |-> size],
                             !.total = TotalAfter(Cat.personas[id].size, size), !.generation = @ + 1],
         !.overwrote = @ \cup Unseen(e), !.editors[e] = ClosedEditor]

InUse(id) == id = Cat.default \/ \E c \in DOMAIN Cat.policies : Cat.policies[c] = id

RemovePersona(e) ==
    LET id == per.editors[e].id IN
    /\ id \in DOMAIN Cat.personas
    /\ Cat.personas[id].rev = per.editors[e].rev
    /\ ~InUse(id)
    /\ PersonaStep([Cat EXCEPT !.personas = [i \in DOMAIN @ \ {id} |-> @[i]],
                        !.total = TotalAfter(Cat.personas[id].size, 0), !.generation = @ + 1])

SetGlobalDefault(id) ==
    /\ id \in DOMAIN Cat.personas \cup {Nobody}
    /\ id # Cat.default
    /\ PersonaStep([Cat EXCEPT !.default = id, !.generation = @ + 1])

\* choice is a persona, or Nobody for an explicit "no persona".
SetCharacterPolicy(c, choice) ==
    /\ choice \in DOMAIN Cat.personas \cup {Nobody}
    /\ IF c \in DOMAIN Cat.policies THEN Cat.policies[c] # choice
       ELSE Cardinality(DOMAIN Cat.policies) < MaxPolicies
    /\ PersonaStep([Cat EXCEPT !.policies = [x \in DOMAIN @ \cup {c} |-> IF x = c THEN choice ELSE @[x]],
                        !.generation = @ + 1])

InheritGlobal(c) ==
    /\ c \in DOMAIN Cat.policies
    /\ PersonaStep([Cat EXCEPT !.policies = [x \in DOMAIN @ \ {c} |-> @[x]], !.generation = @ + 1])

\* The immutable persona resolve_for_play binds to a play: the one chosen for
\* it, or the default its character's policy, then the catalogue, gives.
DefaultFor(c) == IF c \in DOMAIN Cat.policies THEN Cat.policies[c] ELSE Cat.default
Resolved(c, choice) ==
    LET id == IF choice # UseDefault THEN choice ELSE DefaultFor(c)
    IN  IF id = Nobody THEN [id |-> Nobody, rev |-> 0, size |-> 0]
        ELSE [id |-> id, rev |-> Cat.personas[id].rev, size |-> Cat.personas[id].size]

\* The process restarts from the envelope it saved.
Reload == /\ Restorable(Serialized(Cat))
          /\ per' = [per EXCEPT !.cat = Restored(Serialized(Cat)),
                                !.editors = [e \in PersonaEditors |-> ClosedEditor]]

PersonaInit ==
    \E wire \in StoredStates \cup {Serialized(NoPersonas)} :
        per = [cat |-> IF Restorable(wire) THEN Restored(wire) ELSE NoPersonas,
               born |-> [id \in PersonaIds |-> 0],
               editors |-> [e \in PersonaEditors |-> ClosedEditor],
               overwrote |-> {}]

PersonaNext ==
    \/ /\ Cat.generation < MaxPersonaSteps
       /\ \/ \E id \in PersonaIds, s \in PromptSizes : AddPersona(id, s)
          \/ \E e \in PersonaEditors, s \in PromptSizes : UpdatePersona(e, s)
          \/ \E e \in PersonaEditors : RemovePersona(e)
          \/ \E id \in PersonaIds \cup {Nobody} : SetGlobalDefault(id)
          \/ \E c \in Characters, id \in PersonaIds \cup {Nobody} : SetCharacterPolicy(c, id)
          \/ \E c \in Characters : InheritGlobal(c)
    \/ \E e \in PersonaEditors, id \in PersonaIds : OpenEditor(e, id)
    \/ Reload

-----------------------------------------------------------------------------
(* Properties.                                                                *)

\* The catalogue is always one it could have loaded: no default or policy names
\* a removed persona, no limit is passed and the running byte total is exact,
\* so what is saved can always be loaded again and gives the same catalogue.
CatalogueReloads ==
    /\ Cat.total = TotalOf(Cat.personas)
    /\ Restorable(Serialized(Cat))
    /\ Restored(Serialized(Cat)) = Cat

\* Every character resolves to a persona that exists, as resolve_for_play
\* assumes, whatever was removed and in whatever order.
EveryCharacterResolves ==
    \A c \in Characters :
        /\ DefaultFor(c) \in DOMAIN Cat.personas \cup {Nobody}
        /\ Resolved(c, UseDefault).id = DefaultFor(c)

\* An accepted update replaces exactly the text its editor had read, as long as the
\* persona is the one it opened.  One removed and added again under its id starts over
\* at revision 1, and an editor that read the first one at that revision overwrites it.
NoLostPersonaEdit == "opened" \notin per.overwrote

\* The catalogue that was saved loads again, every character finds a persona, and no edit
\* overwrites one it did not see, of a persona that was not removed meanwhile.
PersonasHold ==
    CatalogueReloads /\ EveryCharacterResolves /\ NoLostPersonaEdit

=============================================================================
