------------------------- MODULE MCWebhookSettings -------------------------
(* Values for the small instance of WebhookSettings that TLC explores.     *)
EXTENDS WebhookSettings, TLC

CONSTANTS o1, o2, p1, p2, c1, c2

\* The settings of a typed text.
Text(value) == [k \in SettingsKeys |-> IF k \in Keys THEN value ELSE Null]

\* p1 types a text, or the secret of a new registration; p2 switches an event or the
\* registration itself.
MCTypings ==
  p1 :> ("text" :> {Text(5)} @@ "secret" :> {7}) @@ p2 :> ("active" :> {FALSE})

MCScreens == p1 :> {"settings"} @@ p2 :> {"workspace"}

MCToggles == p1 :> {} @@ p2 :> {"route.built"}

MCSubjects == {{o1}, {o1, o2}}

\* A registration for no event, with settings of its own, and one for orders; a third is to be
\* made.
MCStart ==
  LET Registered(name, value, types) ==
        [ name |-> name, active |-> TRUE, secret |-> 8, inbound |-> Null,
          settings |-> [Text(value) EXCEPT !["eventTypes"] = types] ]
  IN << Registered(3, 4, {}), Registered(2, Null, OrderTypes), Null >>

\* Bound: one field has been typed into, a secret for the new registration only; either that
\* one is made or the first one edited.
FewTyped ==
  /\ hook[3] = Null \/ hook[1] = Start[1]
  /\ \A p \in Pages : IF form[p].id = Null THEN form[p].typed \subseteq {"secret"}
                       ELSE form[p].id = 1 /\ Cardinality(form[p].typed) <= 1 /\ form[p].secret = Null

Unloaded == [h \in Hooks |-> Null]

\* Bound: a form is filled from a list that is new then, and the list is not loaded again
\* until the request has been answered.
ListsWait ==
  \A p \in Pages :
    IF form[p].id # Null
    THEN list[p][form[p].id] = form[p].base \/ \E c \in Calls : sent[c].page = p /\ sent[c].pc = "done"
    ELSE list[p] \in {hook, Unloaded} \/ \E c \in Calls : sent[c].page = p

\* A page that is not in use.
Unused(p) ==
  /\ list[p] = Unloaded /\ form[p].id = Null /\ form[p].typed = {}
  /\ \A c \in Calls : sent[c].page # p

\* Bound: a form is left alone until its request has been served or forgotten; in the latter
\* case but one page is in use.  Answers come one by one.
FormsWait ==
  \A c \in Calls :
    /\ sent[c].pc \in {"sent", "write"} =>
         IF sent[c].mounted
         THEN LET f == form[sent[c].page] IN
              f.id = sent[c].id /\ f.typed = sent[c].typed /\ f.base = sent[c].base
         ELSE \A p \in Pages \ {sent[c].page} : Unused(p)
    /\ sent[c].pc = "done" => \A d \in Calls \ {c} : sent[d].pc # "done"

\* No request is unlike the others.
Interchangeable == Permutations(Calls)

\* Bound: the last event ends the observation; but one page is in use when it occurs, and one
\* request at most is under way.
LastEvent ==
  news.type # Null =>
    /\ news.pc # "done"
    /\ \E p \in Pages : Unused(p)
    /\ \E c \in Calls : sent[c].pc = "idle"

=============================================================================
