-------------------------- MODULE WebhookSettings --------------------------
(***************************************************************************)
(* The registrations of outbound webhooks: how they are edited, and who is *)
(* told of an event (IntegrationsService, OutboundWebhooksService and the  *)
(* two screens on which administrators register webhooks).                 *)
(*                                                                         *)
(* A screen fills its form from a list that may be old and sends the form  *)
(* back whole; the service merges it into the row in two statements.  The  *)
(* event types are a key of the row's JSON settings, which one screen      *)
(* shows as text and the other does not know of.  Meanwhile events occur   *)
(* and are passed to the registrations one after the other.                *)
(*                                                                         *)
(* URL and provider are data like the name; every registration has a URL,  *)
(* since no form is sent without.  What becomes of an event row and its    *)
(* job is WebhookDelivery's affair.                                        *)
(***************************************************************************)
EXTENDS Naturals, FiniteSets

CONSTANTS
  Hooks,      \* ids of registrations, in the order they are made
  OrderTypes, \* the types of events, those of orders
  RouteTypes, \* and those of routes
  Keys,       \* the other keys of the settings
  Pages,      \* the browsers
  Calls,      \* bound: the requests that can be under way at the same time
  Null,       \* null, an empty field, or nothing yet
  Kept,       \* a field that is not sent
  External,   \* the orders with an external id in their row
  Mapped,     \* the orders with an entry in external_id_map
  Subjects,   \* bound: sets of orders that events are about
  Start,      \* the registrations there are at first
  Screens,    \* bound: which screens each page shows
  Typings,    \* bound: what is typed into which fields, on each page
  Toggles     \* bound: the event types that are switched, on each page

EventTypes == OrderTypes \cup RouteTypes

\* The keys of a registration's settings.
SettingsKeys == Keys \cup {"eventTypes"}

\* The inputs of the screens.
Inputs == {"name", "secret", "inbound", "active", "events", "text"}

ASSUME WebhookSettingsAssumption ==
  /\ Hooks \subseteq Nat /\ IsFiniteSet(Hooks) /\ DOMAIN Start = Hooks
  /\ OrderTypes \cap RouteTypes = {} /\ "eventTypes" \notin Keys
  /\ Null \notin EventTypes /\ \A types \in SUBSET EventTypes : types # Null /\ types # Kept
  /\ \A h \in Hooks : Start[h] # Null => DOMAIN Start[h].settings = SettingsKeys
  /\ \A p \in Pages : DOMAIN Typings[p] \subseteq Inputs /\ Toggles[p] \subseteq EventTypes
  /\ \A p \in Pages : \A field \in DOMAIN Typings[p] : \A value \in Typings[p][field] :
       /\ field = "events" => value \subseteq EventTypes
       /\ field = "text" => DOMAIN value = SettingsKeys

VARIABLES
  hook, \* the integrations of one company
  list, \* of each page, the registrations as last loaded
  form, \* of each page, its screen and its form
  sent, \* the requests under way
  news  \* the event that is being passed on, or the last one

settingsVars == << hook, list, form, sent, news >>

EmptyJson == [k \in SettingsKeys |-> Null]

Least(S) == CHOOSE h \in S : \A g \in S : h <= g

-----------------------------------------------------------------------------
(* The settings of a registration.                                         *)

ReadWebhookEventTypes(settings) ==
  IF settings["eventTypes"] = Null THEN EventTypes ELSE settings["eventTypes"] \cap EventTypes

BuildWebhookSettings(types, settings) ==
  [settings EXCEPT !["eventTypes"] = IF types = Kept THEN EventTypes ELSE types]

\* Mutant: what is sent replaces what is stored.
MergeNothing(current, next, types) == IF next = Kept THEN EmptyJson ELSE next

\* A key that is not sent stays.
MergeSettings(current, next, types) ==
  [k \in DOMAIN current |->
     IF k = "eventTypes" /\ types # Kept THEN types
     ELSE IF next # Kept /\ next[k] # Null THEN next[k]
     ELSE current[k]]

Or(given, old) == IF given = Kept THEN old ELSE given

\* The row after an update whose caller has read the settings before.
Updated(row, dto, read) ==
  [ name    |-> Or(dto.name, row.name),
    active  |-> Or(dto.active, row.active),
    secret  |-> Or(dto.secret, row.secret),
    inbound |-> Or(dto.inbound, row.inbound),
    settings |->
      IF dto.events = Kept /\ dto.settings = Kept THEN row.settings
      ELSE BuildWebhookSettings(Or(dto.events, ReadWebhookEventTypes(read)),
                                MergeSettings(read, dto.settings, dto.events)) ]

NameTaken(name, except) == \E h \in Hooks \ {except} : hook[h] # Null /\ hook[h].name = name

-----------------------------------------------------------------------------
(* The screens.  base and typed are history fields: the row that the form  *)
(* was filled from, and the fields typed into since.                       *)

EmptyForm(screen) ==
  [ screen |-> screen, id |-> Null, name |-> 1, secret |-> Null, inbound |-> Null,
    events |-> EventTypes, active |-> TRUE, text |-> EmptyJson, base |-> Null, typed |-> {} ]

FilledForm(screen, h, row) ==
  LET types == ReadWebhookEventTypes(row.settings) IN
  [ screen |-> screen, id |-> h, name |-> row.name, secret |-> Null, inbound |-> Null,
    events |-> IF types # {} THEN types ELSE EventTypes, active |-> row.active,
    text |-> row.settings, base |-> row, typed |-> {} ]

\* mounted: the page waits for the answer.
NoRequest == [pc |-> "idle", page |-> Null, id |-> Null, dto |-> Null, base |-> Null, typed |-> {},
              read |-> Null, mounted |-> FALSE]

Filled(value) == IF value = Null THEN Kept ELSE value

\* webhookFormToPayload of the settings, formToPayload of the workspace.
FormToPayload(f) ==
  [ name |-> f.name, active |-> f.active, secret |-> Filled(f.secret), inbound |-> Filled(f.inbound),
    events |-> f.events, settings |-> IF f.screen = "settings" THEN f.text ELSE Kept ]

ListWebhooks(p) ==
  /\ list' = [list EXCEPT ![p] = hook]
  /\ UNCHANGED << hook, form, sent, news >>

\* The requests once the page p does not wait any more: their answers will not reach it.
Forgotten(p) == [c \in Calls |-> IF sent[c].page = p THEN [sent[c] EXCEPT !.mounted = FALSE]
                                 ELSE sent[c]]

\* Another screen: the form is a new one.
OpenScreen(p, screen) ==
  /\ form' = [form EXCEPT ![p] = EmptyForm(screen)]
  /\ sent' = Forgotten(p)
  /\ UNCHANGED << hook, list, news >>

EditWebhook(p, h) ==
  /\ list[p][h] # Null
  /\ form' = [form EXCEPT ![p] = FilledForm(@.screen, h, list[p][h])]
  /\ UNCHANGED << hook, list, sent, news >>

\* The page forgets its request too, which goes on.
ResetForm(p) ==
  /\ form' = [form EXCEPT ![p] = EmptyForm(@.screen)]
  /\ sent' = Forgotten(p)
  /\ UNCHANGED << hook, list, news >>

\* The text is on one of the screens only.
UpdateForm(p, field, value) ==
  /\ form[p][field] # value
  /\ field = "text" => form[p].screen = "settings"
  /\ form' = [form EXCEPT ![p][field] = value, ![p].typed = @ \cup {field}]
  /\ UNCHANGED << hook, list, sent, news >>

ToggleEvent(p, type) ==
  UpdateForm(p, "events", IF type \in form[p].events THEN form[p].events \ {type}
                          ELSE form[p].events \cup {type})

\* The button is off while the page waits for an answer; the workspace asks for an event, and a
\* new registration needs a secret.
SubmitWebhook(p, c) ==
  LET f == form[p] IN
  /\ sent[c].pc = "idle"
  /\ \A d \in Calls : sent[d].page = p => ~sent[d].mounted
  /\ f.screen = "workspace" => f.events # {}
  /\ f.id = Null => f.secret # Null
  /\ sent' = [sent EXCEPT ![c] = [ pc |-> "sent", page |-> p, id |-> f.id,
                                   dto |-> FormToPayload(f), base |-> f.base, typed |-> f.typed,
                                   read |-> Null, mounted |-> TRUE ]]
  /\ UNCHANGED << hook, list, form, news >>

\* onSuccess: the form is emptied, whatever it holds by now.
TakeAnswer(c) ==
  /\ sent[c].pc = "done"
  /\ form' = IF sent[c].mounted THEN [form EXCEPT ![sent[c].page] = EmptyForm(@.screen)]
             ELSE form
  /\ sent' = [sent EXCEPT ![c] = NoRequest]
  /\ UNCHANGED << hook, list, news >>

\* A request that is refused or lost; the form stays.
RequestFails(c) ==
  /\ sent[c].pc \in {"sent", "write"}
  /\ sent' = [sent EXCEPT ![c] = NoRequest]
  /\ UNCHANGED << hook, list, form, news >>

-----------------------------------------------------------------------------
(* IntegrationsService.                                                    *)

Stored(h, row) ==
  /\ hook' = [hook EXCEPT ![h] = row]
  /\ news' = [news EXCEPT !.touched = @ \cup {h}]
  /\ UNCHANGED << list, form >>

Answer(c) == sent' = [sent EXCEPT ![c] = [NoRequest EXCEPT !.pc = "done", !.page = sent[c].page,
                                                           !.mounted = sent[c].mounted]]

RegisterWebhook(c, h) ==
  LET dto == sent[c].dto IN
  /\ sent[c].pc = "sent" /\ sent[c].id = Null
  /\ hook[h] = Null /\ \A g \in Hooks : g < h => hook[g] # Null
  /\ ~NameTaken(dto.name, h)
  /\ Stored(h, [ name |-> dto.name, active |-> Or(dto.active, TRUE), secret |-> dto.secret,
                 inbound |-> IF dto.inbound = Kept THEN Null ELSE dto.inbound,
                 settings |-> BuildWebhookSettings(dto.events, Or(dto.settings, EmptyJson)) ])
  /\ Answer(c)

FindRegistration(c) ==
  /\ sent[c].pc = "sent" /\ sent[c].id # Null
  /\ sent' = [sent EXCEPT ![c].pc = "write", ![c].read = hook[sent[c].id].settings]
  /\ UNCHANGED << hook, list, form, news >>

UpdateWebhook(c) ==
  LET h == sent[c].id
      row == Updated(hook[h], sent[c].dto, sent[c].read)
  IN
  /\ sent[c].pc = "write"
  /\ ~NameTaken(row.name, h)
  /\ Stored(h, row)
  /\ Answer(c)

-----------------------------------------------------------------------------
(* OutboundWebhooksService.  touched is a history field: the rows written  *)
(* since the registrations were looked up.  broken: the loop was left.     *)

Quiet == [pc |-> "done", type |-> Null, orders |-> {}, todo |-> {}, told |-> {}, unsent |-> {},
          touched |-> Hooks, broken |-> FALSE]

\* The orders that the receiver knows by an id of its own.  An event about none is dropped.
ExternalOrders(type, orders) == orders \cap (IF type \in OrderTypes THEN External ELSE Mapped)

\* findActiveOutboundIntegrations
Wanting(type) ==
  { h \in Hooks : hook[h] # Null /\ hook[h].active /\ hook[h].secret # Null
                  /\ type \in ReadWebhookEventTypes(hook[h].settings) }

LookUp(type, orders) ==
  LET known == ExternalOrders(type, orders) IN
  /\ news.pc = "done"
  /\ type \in OrderTypes => Cardinality(orders) = 1
  /\ known # {}
  /\ news' = [ Quiet EXCEPT !.pc = IF Wanting(type) = {} THEN "done" ELSE "create", !.type = type,
                            !.orders = known, !.todo = Wanting(type), !.touched = {} ]
  /\ UNCHANGED << hook, list, form, sent >>

CreateEventRow ==
  /\ news.pc = "create"
  /\ news' = [news EXCEPT !.pc = "add", !.told = @ \cup {Least(news.todo)}]
  /\ UNCHANGED << hook, list, form, sent >>

\* On to the next registration.
Following(pass) ==
  LET rest == pass.todo \ {Least(pass.todo)} IN
  [pass EXCEPT !.todo = rest, !.pc = IF rest = {} THEN "done" ELSE "create"]

QueueJob ==
  /\ news.pc = "add"
  /\ news' = Following(news)
  /\ UNCHANGED << hook, list, form, sent >>

\* Mutant: an error of the queue ends the loop.
QueueJobThrows ==
  /\ news.pc = "add"
  /\ news' = [news EXCEPT !.pc = "done", !.unsent = @ \cup {Least(news.todo)}]
  /\ UNCHANGED << hook, list, form, sent >>

\* An error of the queue is written into the row.
QueueJobFails ==
  /\ news.pc = "add"
  /\ news' = Following([news EXCEPT !.unsent = @ \cup {Least(news.todo)}])
  /\ UNCHANGED << hook, list, form, sent >>

\* An error of the database ends the loop.
StatementFails ==
  /\ news.pc \in {"create", "add"}
  /\ news' = [news EXCEPT !.pc = "done", !.broken = TRUE]
  /\ UNCHANGED << hook, list, form, sent >>

-----------------------------------------------------------------------------
SettingsInit ==
  /\ hook = Start
  /\ list = [p \in Pages |-> [h \in Hooks |-> Null]]
  /\ \E shown \in [Pages -> {"settings", "workspace"}] :
       /\ \A p \in Pages : shown[p] \in Screens[p]
       /\ form = [p \in Pages |-> EmptyForm(shown[p])]
  /\ sent = [c \in Calls |-> NoRequest]
  /\ news = Quiet

SettingsNext ==
  \/ \E p \in Pages :
       \/ ListWebhooks(p) \/ ResetForm(p)
       \/ \E screen \in Screens[p] : OpenScreen(p, screen)
       \/ \E h \in Hooks : EditWebhook(p, h)
       \/ \E field \in DOMAIN Typings[p] : \E value \in Typings[p][field] : UpdateForm(p, field, value)
       \/ \E type \in Toggles[p] : ToggleEvent(p, type)
       \/ \E c \in Calls : SubmitWebhook(p, c)
  \/ \E c \in Calls :
       \/ TakeAnswer(c) \/ RequestFails(c) \/ FindRegistration(c) \/ UpdateWebhook(c)
       \/ \E h \in Hooks : RegisterWebhook(c, h)
  \/ \E type \in EventTypes, orders \in Subjects : LookUp(type, orders)
  \/ CreateEventRow \/ QueueJob \/ QueueJobFails \/ StatementFails

SettingsSpec == SettingsInit /\ [][SettingsNext]_settingsVars

-----------------------------------------------------------------------------
(* Properties.                                                             *)

\* The events of a row that is saved with none are all of them.
NeverNone(types) == IF types = {} THEN EventTypes ELSE types

\* An update of a registration writes a field that was typed, or one that somebody else has
\* written since this page's list was loaded or since the service read the row; nothing else
\* changes, field by field and on either screen, however saves overlap.  So the secrets stay
\* unless typed, and a key of the settings is lost only if it came after the service's read.
\* The exception: a registration for no event is given all of them.
SavesWhatIsTyped ==
  [][\A c \in Calls, h \in Hooks :
       hook[h] # Null /\ hook'[h] # hook[h] /\ sent[c].pc = "write" /\ sent'[c].pc = "done" =>
         LET old   == hook[h]
             new   == hook'[h]
             base  == sent[c].base
             read  == sent[c].read
             typed == sent[c].typed
         IN
         /\ \A f \in {"secret", "inbound"} \ typed : new[f] = old[f]
         /\ \A f \in {"name", "active"} \ typed : base[f] = old[f] => new[f] = old[f]
         /\ "events" \notin typed =>
              LET types == ReadWebhookEventTypes(old.settings) IN
              ReadWebhookEventTypes(base.settings) = types =>
                ReadWebhookEventTypes(new.settings) = NeverNone(types)
         /\ \A k \in Keys :
              /\ read[k] # Null => new.settings[k] # Null
              /\ /\ "text" \notin typed /\ read[k] = old.settings[k]
                 /\ sent[c].dto.settings # Kept => base.settings[k] = old.settings[k]
                 => new.settings[k] = old.settings[k]]_settingsVars

\* When an event has been passed on, the registrations that want it, and no others, have a row
\* of it, also if the queue failed for some: of those that nobody has changed meanwhile, and
\* unless the database failed.  Its orders are known to the receiver.
EveryoneIsTold ==
  news.pc = "done" /\ news.type # Null =>
    /\ news.orders # {} /\ news.orders \subseteq External \cup Mapped
    /\ ~news.broken => \A h \in Hooks \ news.touched : h \in news.told <=> h \in Wanting(news.type)

=============================================================================
