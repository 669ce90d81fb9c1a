------------------------------ MODULE ConfigApply ------------------------------
(***************************************************************************)
(* What the configuration file does to the tables: applyConfig and its     *)
(* five stages, and generateConfig, which writes the file of the tables.   *)
(* Everything here runs inside one write transaction, so a stage is a      *)
(* function from tables to the tables it may leave.  It may leave several: *)
(* Go ranges over the maps of the file in any order.                       *)
(*                                                                         *)
(* Abstractions of data:                                                   *)
(*  - A row keeps what others refer to it by (kind, id, slug), the type of *)
(*    a notification channel, and of the rest (names, URLs, headers,       *)
(*    bodies, members, details) what a file makes of it:                   *)
(*      plain     a file says it, and applyConfig takes it as it was;      *)
(*      repeated  a monitor's form body with a key that occurs twice: a    *)
(*                file says the first value alone;                         *)
(*      refused   no file that says it is accepted.  The forms store such  *)
(*                values: the webhook URL /x, the SMTP port 0, a member    *)
(*                written in two ways, the slug of a name in a script      *)
(*                without lower case, a text like an encrypted secret, a   *)
(*                form body that does not parse (no file is generated).    *)
(*  - The secrets in a file are left out.  A file is malformed (not YAML), *)
(*    or it has a complaint (a message about a value outside its entities, *)
(*    as the name of the site), or neither.  The other messages, about     *)
(*    values of entities and names that refer to each other, are computed. *)
(***************************************************************************)
EXTENDS Naturals, FiniteSets, Sequences, SequencesExt

CONSTANTS
  Slugs,
  Files,       \* names of the files that are applied
  Text,        \* what these files say
  FormKinds,   \* bound: kinds whose forms are used
  FormSlugs,   \* bound: slugs these forms generate
  MaxId,       \* bound: ids that rows get
  MaxOdd       \* bound: rows with a value that is not plain

ASSUME SlugAssumption == "none" \notin Slugs
ASSUME BoundsAssumption == MaxId \in Nat /\ MaxOdd \in Nat

VARIABLE tables

Kinds == {"services", "monitors", "notification-channels", "mail-groups"}

\* What a monitor is linked to.
Targets == {"notification-channels", "mail-groups"}

Types == {"smtp", "slack", "none"}

Values == {"plain", "repeated", "refused"}

\* The forms check less than applyConfig does.
FormValues(kind) == IF kind = "monitors" THEN Values ELSE {"plain", "refused"}

Row  == [kind : Kinds, id : Nat \ {0}, slug : Slugs, type : Types, value : Values]
Link == [monitor : Nat, kind : Targets, id : Nat]

\* The tables, and the tables inside the transaction that applies a file.
Tables       == [rows : SUBSET Row, links : SUBSET Link, email : Nat]
Transactions == [rows : SUBSET Row, links : SUBSET Link, email : Nat, ok : BOOLEAN]

\* What a section of a file says of an entity.  Its body is a map, and repeats
\* nothing.
Entity == [kind : Kinds, slug : Slugs, type : Types, value : {"plain", "refused"}]

\* The sections of a file are maps with the slugs as keys; the links are those
\* that the entries of monitors name.
IsFile(f) ==
  /\ f.malformed \in BOOLEAN
  /\ f.complaint \in BOOLEAN
  /\ f.rename \subseteq [kind : Kinds, src : Slugs, dst : Slugs]
  /\ f.entities \subseteq Entity
  /\ f.links \subseteq [monitor : Slugs, kind : Targets, slug : Slugs]
  /\ f.email \in Slugs \cup {"none"}
  /\ IsFiniteSet(f.rename) /\ IsFiniteSet(f.entities)
  /\ \A d, e \in f.rename : d.kind = e.kind /\ d.src = e.src => d = e
  /\ \A d, e \in f.entities : d.kind = e.kind /\ d.slug = e.slug => d = e
  /\ \A l \in f.links : \E e \in f.entities : e.kind = "monitors" /\ e.slug = l.monitor

ASSUME FilesAssumption == \A f \in Files : IsFile(Text[f])
ASSUME FormsAssumption == FormKinds \subseteq Kinds /\ FormSlugs \subseteq Slugs

-----------------------------------------------------------------------------
(* Rows *)

Named(t, kind, slug) == {r \in t.rows : r.kind = kind /\ r.slug = slug}

IdOf(t, kind, slug) == (CHOOSE r \in Named(t, kind, slug) : TRUE).id

SlugOf(t, kind, id) == (CHOOSE r \in t.rows : r.kind = kind /\ r.id = id).slug

Declared(f, kind) == {e.slug : e \in {x \in f.entities : x.kind = kind}}

Fresh(t, kind, slug) == Named(t, kind, slug) = {}

\* SQLite gives a new row the id after the largest in the table.
NextId(t, kind) == 1 + Max({0} \cup {r.id : r \in {x \in t.rows : x.kind = kind}})

Insert(t, kind, slug, type, value) ==
  [t EXCEPT !.rows = @ \cup {[kind |-> kind, id |-> NextId(t, kind), slug |-> slug,
                              type |-> type, value |-> value]}]

\* A delete cascades to links and to the alert channel.
Delete(t, gone) ==
  [t EXCEPT !.rows = @ \ gone,
            !.links = {l \in @ : \A r \in gone :
                         /\ ~(r.kind = "monitors" /\ r.id = l.monitor)
                         /\ ~(r.kind = l.kind /\ r.id = l.id)},
            !.email = IF \E r \in gone : r.kind = "notification-channels" /\ r.id = @
                      THEN 0 ELSE @]

\* updateMonitorNotificationChannels and updateMonitorMailGroups.
Relink(t, monitor, links) ==
  [t EXCEPT !.links = {l \in @ : l.monitor # monitor} \cup links]

-----------------------------------------------------------------------------
(* Renames *)

\* Fault: a slug that is taken is not seen.
RenameEntityOver(f, t, e) ==
  LET source == Named(t, e.kind, e.src)
  IN [t EXCEPT !.rows = (@ \ source) \cup {[r EXCEPT !.slug = e.dst] : r \in source}]

\* Fault: the renamed entity is inserted again.
RenameEntityAnew(f, t, e) ==
  LET source == Named(t, e.kind, e.src)
      free   == Named(t, e.kind, e.dst) \subseteq source
  IN [t EXCEPT !.ok = @ /\ source # {} /\ free /\ e.src # e.dst,
               !.rows = IF free
                        THEN (@ \ source) \cup {[r EXCEPT !.slug = e.dst,
                                                         !.id = NextId(t, e.kind)] : r \in source}
                        ELSE @]

\* One entry of "rename": a source that does not exist, a destination that is
\* taken (a constraint error of the update) or not declared is a message.
RenameEntity(f, t, e) ==
  LET source == Named(t, e.kind, e.src)
      free   == Named(t, e.kind, e.dst) \subseteq source
  IN [t EXCEPT !.ok = /\ @
                      /\ source # {}
                      /\ free
                      /\ e.src # e.dst
                      /\ e.dst \in Declared(f, e.kind),
               !.rows = IF free
                        THEN (@ \ source) \cup {[r EXCEPT !.slug = e.dst] : r \in source}
                        ELSE @]

Renamed(t, f) ==
  {FoldLeft(LAMBDA u, e : RenameEntity(f, u, e), t, order) : order \in SetToSeqs(f.rename)}

-----------------------------------------------------------------------------
(* Stages *)

DropUndeclared(t, f, kind) ==
  Delete(t, {r \in t.rows : r.kind = kind /\ r.slug \notin Declared(f, kind)})

\* New entities are created as the file's map is ranged over.
CreateDeclared(t, f, kind) ==
  LET new == {e \in f.entities : e.kind = kind /\ Fresh(t, kind, e.slug)}
  IN {FoldLeft(LAMBDA u, e : Insert(u, kind, e.slug, e.type, e.value), t, order) :
        order \in SetToSeqs(new)}

\* An edit writes what the file says; the type of a channel stays, and details
\* of the other type read as empty values.
EditDeclared(t, f, kind) ==
  LET said(r) == CHOOSE e \in f.entities : e.kind = kind /\ e.slug = r.slug
  IN [t EXCEPT !.rows =
        {IF r.kind = kind /\ r.slug \in Declared(f, kind)
         THEN [r EXCEPT !.value = IF r.type = said(r).type THEN said(r).value ELSE "refused"]
         ELSE r : r \in @}]

\* One pass over a section of the file.
Declare(t, f, kind) == CreateDeclared(EditDeclared(t, f, kind), f, kind)

applyConfigServices(t, f) == Declare(DropUndeclared(t, f, "services"), f, "services")

\* Monitors that are not in the file go in the last stage.
applyConfigMonitors(t, f) == Declare(t, f, "monitors")

applyConfigNotificationChannels(t, f) ==
  Declare(DropUndeclared(t, f, "notification-channels"), f, "notification-channels")

applyConfigMailGroups(t, f) ==
  Declare(DropUndeclared(t, f, "mail-groups"), f, "mail-groups")

\* Fault: links are added to those a monitor has.
ReferencesAdded(t, f) ==
  LET kept == DropUndeclared(t, f, "monitors")
  IN {[kept EXCEPT
         !.links = @ \cup {[monitor |-> IdOf(kept, "monitors", l.monitor), kind |-> l.kind,
                            id |-> IdOf(kept, l.kind, l.slug)] :
                             l \in {x \in f.links : ~Fresh(kept, x.kind, x.slug)}},
         !.email = IF Fresh(kept, "notification-channels", f.email)
                   THEN 0 ELSE IdOf(kept, "notification-channels", f.email)]}

\* A monitor with a reference that is not known keeps its links; the alert
\* channel is whatever channel has the name, of any type, or none.
applyConfigReferences(t, f) ==
  LET kept       == DropUndeclared(t, f, "monitors")
      unknown(l) == Fresh(kept, l.kind, l.slug)
      skipped    == {l.monitor : l \in {x \in f.links : unknown(x)}}
      updated    == {IdOf(kept, "monitors", m) : m \in Declared(f, "monitors") \ skipped}
      noChannel  == Fresh(kept, "notification-channels", f.email)
  IN {[kept EXCEPT
         !.links = {l \in @ : l.monitor \notin updated}
                   \cup {[monitor |-> IdOf(kept, "monitors", l.monitor),
                          kind |-> l.kind,
                          id |-> IdOf(kept, l.kind, l.slug)] :
                           l \in {x \in f.links : x.monitor \notin skipped}},
         !.email = IF noChannel THEN 0 ELSE IdOf(kept, "notification-channels", f.email),
         !.ok = @ /\ skipped = {} /\ ~(f.email # "none" /\ noChannel)]}

Stage(before, Apply(_, _), f) == UNION {Apply(t, f) : t \in before}

\* The transaction as it begins; ok while there is no message.
Start(t, f) == [rows  |-> t.rows, links |-> t.links, email |-> t.email,
                ok |-> /\ ~f.malformed /\ ~f.complaint
                       /\ \A e \in f.entities : e.value # "refused"]

\* What applying f to t may end in.
applyConfig(t, f) ==
  IF f.malformed
  THEN {Start(t, f)}
  ELSE Stage(Stage(Stage(Stage(Stage(Renamed(Start(t, f), f),
         applyConfigServices, f), applyConfigMonitors, f),
         applyConfigNotificationChannels, f), applyConfigMailGroups, f),
         applyConfigReferences, f)

TablesOf(o) == [rows |-> o.rows, links |-> o.links, email |-> o.email]

Accepted(t, f) == {TablesOf(o) : o \in {x \in applyConfig(t, f) : x.ok}}

Rejects(t, f) == \E o \in applyConfig(t, f) : ~o.ok

-----------------------------------------------------------------------------
(* generateConfig *)

\* A file with the rows of t and with these links; of a form body, the first
\* value of each key.  Beside its entities it has the name of the site, which is
\* never empty, and the alert settings, which are not checked; neither is taken
\* to look like an encrypted secret.
FileOf(t, links) ==
  [malformed |-> FALSE,
   complaint |-> FALSE,
   rename    |-> {},
   entities  |-> {[kind |-> r.kind, slug |-> r.slug, type |-> r.type,
                   value |-> IF r.value = "repeated" THEN "plain" ELSE r.value] : r \in t.rows},
   links     |-> {[monitor |-> SlugOf(t, "monitors", l.monitor), kind |-> l.kind,
                   slug |-> SlugOf(t, l.kind, l.id)] : l \in links},
   email     |-> IF t.email = 0 THEN "none"
                 ELSE SlugOf(t, "notification-channels", t.email)]

\* Fault: a monitor is written without its mail groups.
GenerateWithoutGroups(t) ==
  FileOf(t, {l \in t.links : l.kind = "notification-channels"})

generateConfig(t) == FileOf(t, t.links)

\* The tables hold what f declares, with or without looking at types.
Untyped(entities) == {[kind |-> e.kind, slug |-> e.slug] : e \in entities}

Matches(t, f) ==
  LET g == generateConfig(t)
  IN /\ Untyped(g.entities) = Untyped(f.entities)
     /\ g.links = f.links
     /\ g.email = f.email

MatchesWithTypes(t, f) == Matches(t, f) /\ generateConfig(t).entities = f.entities

-----------------------------------------------------------------------------
(* Transactions *)

WithinBounds ==
  /\ \A r \in tables'.rows : r.id <= MaxId
  /\ Cardinality({r \in tables'.rows : r.value # "plain"}) <= MaxOdd

\* postCreateService, postCreateNotification, postCreateMailGroup; the slug is
\* generated so that it is free.
CreateEntity ==
  \E kind \in FormKinds \ {"monitors"}, slug \in FormSlugs :
    /\ Fresh(tables, kind, slug)
    /\ \E type \in (IF kind = "notification-channels" THEN {"smtp", "slack"} ELSE {"none"}),
          value \in FormValues(kind) :
         tables' = Insert(tables, kind, slug, type, value)
    /\ WithinBounds

\* Links a monitor's form can name: everything there is.
LinkSets(monitor) ==
  SUBSET {[monitor |-> monitor, kind |-> t.kind, id |-> t.id] :
            t \in {x \in tables.rows : x.kind \in Targets}}

CreateMonitor ==
  /\ "monitors" \in FormKinds
  /\ \E slug \in FormSlugs :
       /\ Fresh(tables, "monitors", slug)
       /\ \E links \in LinkSets(NextId(tables, "monitors")), value \in FormValues("monitors") :
            tables' = Relink(Insert(tables, "monitors", slug, "none", value),
                             NextId(tables, "monitors"), links)
  /\ WithinBounds

\* What a form writes to a row.
Write(t, row, value) ==
  [t EXCEPT !.rows = (@ \ {row}) \cup {[row EXCEPT !.value = value]}]

EditMonitor ==
  /\ "monitors" \in FormKinds
  /\ \E m \in {x \in tables.rows : x.kind = "monitors"} :
       \E links \in LinkSets(m.id), value \in FormValues("monitors") :
         tables' = Relink(Write(tables, m, value), m.id, links)
  /\ WithinBounds

\* postEditService, postEditNotification (details of the type the row has) and
\* postEditMailGroup.
EditEntity ==
  /\ \E row \in {x \in tables.rows : x.kind \in FormKinds \ {"monitors"}} :
       \E value \in FormValues(row.kind) : tables' = Write(tables, row, value)
  /\ WithinBounds

\* deleteService, deleteMonitor, deleteNotificationChannel, deleteMailGroup.
DeleteEntity ==
  \E row \in {x \in tables.rows : x.kind \in FormKinds} : tables' = Delete(tables, {row})

\* postAlertNotifications: an smtp channel, or none.
ChooseAlertChannel ==
  \E id \in {0} \cup {c.id : c \in {x \in tables.rows : /\ x.kind = "notification-channels"
                                                         /\ x.type = "smtp"}} :
    tables' = [tables EXCEPT !.email = id]

\* postConfig and the webhook, for a file without messages; a file with
\* messages leaves nothing behind.
ApplyFile(f) ==
  /\ tables' \in Accepted(tables, Text[f])
  /\ WithinBounds

Init == tables = [rows |-> {}, links |-> {}, email |-> 0]

Next ==
  \/ CreateEntity \/ CreateMonitor \/ EditMonitor \/ EditEntity \/ DeleteEntity
  \/ ChooseAlertChannel
  \/ \E f \in Files : ApplyFile(f)

Spec == Init /\ [][Next]_tables

-----------------------------------------------------------------------------
(* Properties *)

\* Type correctness; ids and slugs are unique in their tables, and nothing
\* refers to what is not there.
TypeOK ==
  /\ tables \in Tables
  /\ \A r1, r2 \in tables.rows : /\ r1.kind = r2.kind
                                 /\ r1.id = r2.id \/ r1.slug = r2.slug
                                 => r1 = r2
  /\ \A l \in tables.links :
       /\ \E m \in tables.rows : m.kind = "monitors" /\ m.id = l.monitor
       /\ \E t \in tables.rows : t.kind = l.kind /\ t.id = l.id
  /\ tables.email = 0 \/ \E c \in tables.rows : /\ c.kind = "notification-channels"
                                                /\ c.id = tables.email

\* An accepted file is in force: the tables hold what it declares, links and
\* alert channel included, whatever they held before.
AcceptedIsInForce ==
  \A f \in Files : \A t \in Accepted(tables, Text[f]) : Matches(t, Text[f])

\* Go ranges over the renames in any order; two orders that both work leave the
\* same rows under the same slugs, chains and swaps included, unless two renames
\* lead to one slug.
Converging(f) == \E d, e \in f.rename : d # e /\ d.kind = e.kind /\ d.dst = e.dst

OrderDecidesNothing ==
  \A f \in Files : ~Converging(Text[f]) =>
    \A t, u \in {x \in Renamed(Start(tables, Text[f]), Text[f]) : x.ok} : t.rows = u.rows

\* An accepted file keeps the row of what it renames and of what it leaves
\* alone, with everything that hangs on its id, unless renames are chained.
Chained(f) == \E d, e \in f.rename : d.kind = e.kind /\ d.dst = e.src

RowsKept ==
  \A f \in Files : ~Chained(Text[f]) =>
    \A t \in Accepted(tables, Text[f]), r \in tables.rows :
      LET moved == {e.dst : e \in {x \in Text[f].rename : x.kind = r.kind /\ x.src = r.slug}}
          slug  == IF moved = {} THEN r.slug ELSE CHOOSE s \in moved : TRUE
      IN slug \in Declared(Text[f], r.kind) =>
           \E k \in t.rows : k.kind = r.kind /\ k.id = r.id /\ k.slug = slug

\* The file generated from the tables is rejected if it says a value that the
\* forms stored and applyConfig refuses.  Otherwise it is accepted and changes
\* nothing, but that form bodies lose what follows the first value of a key.
RoundTrip ==
  LET after == applyConfig(tables, generateConfig(tables))
  IN IF \E r \in tables.rows : r.value = "refused"
     THEN \A o \in after : ~o.ok
     ELSE after = {[rows |-> {[r EXCEPT !.value = "plain"] : r \in tables.rows},
                    links |-> tables.links, email |-> tables.email, ok |-> TRUE]}

-----------------------------------------------------------------------------
(* Properties that comments, tests and messages suggest and the code does not have *)

\* "A config the app itself produced has to be one the app accepts"
\* (routes_settings_test.go 233; configsettings_test.go 47 says so of the snapshot
\* taken when the file is switched on).
GeneratedIsAccepted == \A o \in applyConfig(tables, generateConfig(tables)) : o.ok

\* "... and a round trip that drifted would delete resources" (the same comment,
\* 234): what is accepted leaves every row as it was.
AcceptedLeavesAll == \A t \in Accepted(tables, generateConfig(tables)) : t = tables

\* A channel is of the type the accepted file declares.
TypesInForce ==
  \A f \in Files : \A t \in Accepted(tables, Text[f]) : MatchesWithTypes(t, Text[f])

\* Alerts are mailed through a channel that mails.
AlertChannelMails ==
  \A c \in tables.rows : c.kind = "notification-channels" /\ c.id = tables.email
                         => c.type = "smtp"

\* A rename of what does not exist is reported, never applied.
ImpossibleRenamesReported ==
  \A f \in Files : Accepted(tables, Text[f]) # {} =>
    \A e \in Text[f].rename : ~Fresh(tables, e.kind, e.src)

\* What a slug's row becomes is the same for every order of the renames.
OrderNeverDecides ==
  \A f \in Files :
    \A t, u \in {x \in Renamed(Start(tables, Text[f]), Text[f]) : x.ok} : t.rows = u.rows

\* Whether a file is accepted is the same for every order of its maps.
AcceptanceIsCertain ==
  \A f \in Files : Accepted(tables, Text[f]) = {} \/ ~Rejects(tables, Text[f])

===============================================================================
