-------------------------- MODULE CompanySettings --------------------------
(***************************************************************************)
(* What a company's administrators set: zones and feature flags            *)
(* (ZonesService, CompaniesService).                                       *)
(*                                                                         *)
(* Both services read a row, decide from it and write by id in a second    *)
(* statement.  A zone is archived, never deleted, and keeps its name; a    *)
(* flag remembers when it was last switched on and off.                    *)
(*                                                                         *)
(* History: the field stale of a chore says that its row was written since *)
(* it was read; blurred holds the flags written by such a chore and not    *)
(* switched since.                                                         *)
(***************************************************************************)
EXTENDS Accounts

CONSTANTS
  Zones, \* the rows zones can have
  Names, \* the names of zones
  Flags, \* feature keys
  Defaults, \* the feature flags of a new company
  FirstZones \* the zones there are at first, a row each

ASSUME CompanySettingsAssumption ==
  /\ Unset \notin Zones \cup Names \cup Flags \cup (Companies \X Flags)
  /\ Defaults \in [Flags -> BOOLEAN]
  /\ FirstZones \in [Zones -> [company : Companies \cup {Unset}, name : Names \cup {Unset},
                               active : BOOLEAN]]

VARIABLES
  zone,    \* the zones table
  feature, \* company_features: one row for each company and key
  chore,   \* what each call about settings is doing
  blurred  \* flags written by an overtaken chore and not switched since

settings == << zone, feature, chore, blurred >>

Zone == [company : Companies \cup {Unset}, name : Names \cup {Unset}, active : BOOLEAN]

NoZone == [company |-> Unset, name |-> Unset, active |-> FALSE]

\* enabledAt, disabledAt: whether the stamp is set.
Feature == [state : {"none", "enabled", "disabled"}, enabledAt : BOOLEAN, disabledAt : BOOLEAN]

NoFeature == [state |-> "none", enabledAt |-> FALSE, disabledAt |-> FALSE]

\* A row as it is inserted, stamped for the state it starts in.
NewFeature(enabled) ==
  [state |-> IF enabled THEN "enabled" ELSE "disabled", enabledAt |-> enabled,
   disabledAt |-> ~enabled]

Key == Companies \X Flags

Chore == [pc : {"idle", "write"}, op : {"none", "create", "update", "archive", "flag"},
          scope : Companies \cup {Unset}, zone : Zones \cup {Unset}, key : Key \cup {Unset},
          name : Names \cup {Unset}, active : BOOLEAN \cup {Unset}, seen : Feature,
          stale : BOOLEAN]

NoChore == [pc |-> "idle", op |-> "none", scope |-> Unset, zone |-> Unset, key |-> Unset,
            name |-> Unset, active |-> Unset, seen |-> NoFeature, stale |-> FALSE]

SettingsInit ==
  /\ zone    = FirstZones
  /\ feature = [k \in Key |-> IF company[k[1]] = "none" THEN NoFeature ELSE NewFeature(Defaults[k[2]])]
  /\ chore   = [t \in Threads |-> NoChore]
  /\ blurred = {}

MayBeginChore(t) == chore[t].pc = "idle" /\ made < MaxCalls

BeginChore(t, next) ==
  /\ MayBeginChore(t)
  /\ made' = made + 1
  /\ chore' = [chore EXCEPT ![t] = next]
  /\ UNCHANGED << zone, feature, blurred, data, call, raced >>

\* Chores in flight for the zone or the flag that t has written are overtaken.
ChoreDone(t) ==
  chore' = [x \in Threads |->
              IF x = t THEN NoChore
              ELSE IF \/ chore[x].zone # Unset /\ zone'[chore[x].zone] # zone[chore[x].zone]
                      \/ chore[x].key # Unset /\ chore[x].key = chore[t].key
                   THEN [chore[x] EXCEPT !.stale = TRUE]
                   ELSE chore[x]]

FailChore(t) ==
  /\ chore[t].pc # "idle"
  /\ chore' = [chore EXCEPT ![t] = NoChore]
  /\ UNCHANGED << zone, feature, blurred, vars >>

-----------------------------------------------------------------------------
(* ZonesService.                                                           *)

ZonesRoute == TenantRoute({"admin"}, {"edit:zones"})

\* Archived zones count: they keep their name.
NameTaken(c, name, except) ==
  \E z \in Zones \ {except} : zone[z].company = c /\ zone[z].name = name

CreateZone(t, who, name) ==
  LET ctx == runWithTenant(who.company) IN
  /\ Admitted(ZonesRoute, who)
  /\ ~NameTaken(ctx.companyId, name, Unset)
  /\ BeginChore(t, [NoChore EXCEPT !.pc = "write", !.op = "create", !.scope = ctx.companyId,
                                   !.name = name])

\* The insert; the unique index on company and name decides a race.
CreateZoneWrite(t, z) ==
  LET c == CompanyOfNew(runWithTenant(chore[t].scope), "Zone", chore[t].scope) IN
  /\ chore[t].pc = "write" /\ chore[t].op = "create"
  /\ c # Unset /\ zone[z].company = Unset
  /\ ~NameTaken(c, chore[t].name, z)
  /\ zone' = [zone EXCEPT ![z] = [company |-> c, name |-> chore[t].name, active |-> TRUE]]
  /\ ChoreDone(t)
  /\ UNCHANGED << feature, blurred, vars >>

\* updateZone: an archived zone is not found.
UpdateZone(t, who, z, name, active) ==
  LET ctx == runWithTenant(who.company) IN
  /\ Admitted(ZonesRoute, who)
  /\ zone[z].company # Unset /\ Reaches(ctx, "Zone", "findFirst", zone[z].company)
  /\ zone[z].active
  /\ name \notin {Unset, zone[z].name} => ~NameTaken(ctx.companyId, name, z)
  /\ BeginChore(t, [NoChore EXCEPT !.pc = "write", !.op = "update", !.scope = ctx.companyId,
                                   !.zone = z, !.name = name, !.active = active])

UpdateZoneWrite(t) ==
  LET z   == chore[t].zone
      row == [zone[z] EXCEPT !.name = Given(chore[t].name, @),
                             !.active = Given(chore[t].active, @)] IN
  /\ chore[t].pc = "write" /\ chore[t].op = "update"
  /\ Reaches(runWithTenant(chore[t].scope), "Zone", "update", zone[z].company)
  /\ ~NameTaken(zone[z].company, row.name, z)
  /\ zone' = [zone EXCEPT ![z] = row]
  /\ ChoreDone(t)
  /\ UNCHANGED << feature, blurred, vars >>

\* deleteZone archives; an archived zone is answered without a write.
DeleteZone(t, who, z) ==
  LET ctx == runWithTenant(who.company) IN
  /\ Admitted(ZonesRoute, who)
  /\ zone[z].company # Unset /\ Reaches(ctx, "Zone", "findFirst", zone[z].company)
  /\ zone[z].active
  /\ BeginChore(t, [NoChore EXCEPT !.pc = "write", !.op = "archive", !.scope = ctx.companyId,
                                   !.zone = z])

DeleteZoneWrite(t) ==
  LET z == chore[t].zone IN
  /\ chore[t].pc = "write" /\ chore[t].op = "archive"
  /\ Reaches(runWithTenant(chore[t].scope), "Zone", "update", zone[z].company)
  /\ zone' = [zone EXCEPT ![z].active = FALSE]
  /\ ChoreDone(t)
  /\ UNCHANGED << feature, blurred, vars >>

-----------------------------------------------------------------------------
(* CompaniesService.upsertFeatureFlag.                                     *)

FeaturesRoute == TenantRoute({"admin"}, {})

\* Look for the row; whether the flag changes is judged by what is found.
UpsertFeatureFlag(t, who, f, enabled) ==
  LET ctx == runWithTenant(who.company)
      key == << ctx.companyId, f >> IN
  /\ Admitted(FeaturesRoute, who)
  /\ company[ctx.companyId] # "none"
  /\ BeginChore(t, [NoChore EXCEPT !.pc = "write", !.op = "flag", !.scope = ctx.companyId,
                                   !.key = key, !.active = enabled, !.seen = feature[key]])

\* Whether a write switches the flag, judged by the state that was seen.
Switches(seen, enabled) == enabled # (seen.state = "enabled")

\* The stamps after a write of row.
Stamped(row, seen, enabled) ==
  [ state      |-> IF enabled THEN "enabled" ELSE "disabled",
    enabledAt  |-> IF Switches(seen, enabled) /\ enabled THEN TRUE ELSE row.enabledAt,
    disabledAt |-> IF Switches(seen, enabled) THEN ~enabled ELSE row.disabledAt ]

\* An insert fails on the unique index if the row is there by now.
UpsertFeatureFlagWrite(t) ==
  LET key == chore[t].key IN
  /\ chore[t].pc = "write" /\ chore[t].op = "flag"
  /\ chore[t].seen.state = "none" => feature[key].state = "none"
  /\ feature' = [feature EXCEPT ![key] =
                   IF chore[t].seen.state = "none" THEN NewFeature(chore[t].active)
                   ELSE Stamped(@, chore[t].seen, chore[t].active)]
  /\ blurred' = IF chore[t].stale THEN blurred \cup {key}
                ELSE IF Switches(chore[t].seen, chore[t].active) THEN blurred \ {key} ELSE blurred
  /\ UNCHANGED << zone, vars >>
  /\ ChoreDone(t)

\* seedDefaultFeatures: createMany with skipDuplicates leaves rows that are there.
seedDefaultFeatures(c) ==
  feature' = [k \in Key |->
                IF k[1] = c /\ feature[k].state = "none" THEN NewFeature(Defaults[k[2]])
                ELSE feature[k]]

-----------------------------------------------------------------------------
Configures(t, who) ==
  /\ MayBeginChore(t) /\ who # Nobody
  /\ \/ \E name \in Names : CreateZone(t, who, name)
     \/ \E z \in Zones, name \in Names \cup {Unset}, active \in BOOLEAN \cup {Unset} :
          UpdateZone(t, who, z, name, active)
     \/ \E z \in Zones : DeleteZone(t, who, z)
     \/ \E f \in Flags, enabled \in BOOLEAN : UpsertFeatureFlag(t, who, f, enabled)

ChoreWrites(t) ==
  \/ \E z \in Zones : CreateZoneWrite(t, z)
  \/ UpdateZoneWrite(t)
  \/ DeleteZoneWrite(t)
  \/ UpsertFeatureFlagWrite(t)

ChoreStep(t) ==
  \/ \E a \in Users : Configures(t, Identity(a))
  \/ ChoreWrites(t)
  \/ FailChore(t)

-----------------------------------------------------------------------------
(* Properties.                                                             *)

\* Types of the settings and of the chores in flight.
SettingsTypeOK ==
  /\ zone    \in [Zones -> Zone]
  /\ feature \in [Key -> Feature]
  /\ chore   \in [Threads -> Chore]
  /\ blurred \subseteq Key

\* The stamps of a flag agree with its state: a flag that is on has been switched
\* on and not off since, one that is off has been switched off; unless a call wrote
\* it that had read it before another one did, and nobody has switched it since
\* (CompaniesService.upsertFeatureFlag).
StampsFit ==
  \A k \in Key \ blurred :
    /\ feature[k].state = "enabled" => feature[k].enabledAt /\ ~feature[k].disabledAt
    /\ feature[k].state = "disabled" => feature[k].disabledAt

OvertakenWakesOnly ==
  \A z \in Zones :
    zone[z].company # Unset /\ ~zone[z].active /\ zone'[z] # zone[z] =>
      \E t \in Threads : chore[t].zone = z /\ chore[t].stale /\ chore'[t] = NoChore

\* An archived zone stays archived and keeps its name, unless an edit that was
\* begun before it was archived is written afterwards (ZonesService.updateZone).
ArchivedStays == [][OvertakenWakesOnly]_settings

=============================================================================
