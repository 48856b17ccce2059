-------------------------- MODULE SchemaMigration --------------------------
(***************************************************************************)
(* Opening an index database: it is created, or brought from the schema an  *)
(* older server left to the current one by a chain of migrations, each in   *)
(* its own transaction, while other sidecars open the same file and any of  *)
(* them may die between two steps.                                          *)
(*                                                                          *)
(* SQLite is external: a transaction is atomic and an immediate one         *)
(* excludes the others; CREATE and ALTER of what exists fail and roll back. *)
(***************************************************************************)
EXTENDS Naturals, FiniteSets

CONSTANTS
    Openers,        \* processes that open the database
    Identity,       \* [Openers -> workspace identities]
    Legacy,         \* schema versions an older server may have left
    Qualifiers,     \* what qualifies the occurrences of a name in the one document kept track of
    MaxOpens        \* bound: opens of one behaviour

Current == 11       \* SCHEMA_VERSION
Null == "none"      \* SQL NULL

VARIABLES
    version,        \* application_id and user_version: 0 before the schema exists
    schema,         \* the parts of the schema that exist, by the version that brought them in
    facts,          \* what the tables claim of the document
    owner,          \* metadata.workspace_identity
    control,        \* the identity in the catalog's control database, Null before there is one
    opener,         \* each opener's progress
    opens,
    history         \* what happened: a first opener was "interrupted" before its migrations
                    \* were done, two openers' old migrations "overlapped"

vars == <<version, schema, facts, owner, control, opener, opens, history>>

-----------------------------------------------------------------------------
(* What each version's tables claim *)

\* Occurrences: qualified or not, NULL in rows older than version 6; identities pair that
\* with a qualifier, '' when it is not known. Exports: the name they are imported under.
\* Classes: the heritage and provenance markers.
Truth == [qualified |-> "yes", identities |-> {<<"yes", q>> : q \in Qualifiers},
          exportName |-> "known", heritage |-> "known", provenance |-> "known"]
Nothing == [qualified |-> Null, identities |-> {}, exportName |-> Null, heritage |-> Null,
            provenance |-> Null]

\* What a server of version v wrote, from its own source or carried over from version 5
Written(v, q) == [Nothing EXCEPT
    !.qualified = IF v >= 6 THEN q ELSE Null,
    !.identities = IF v < 7 THEN {} ELSE IF v = 7 \/ q = Null THEN {<<q, "">>} ELSE Truth.identities,
    !.exportName = IF v >= 9 THEN "known" ELSE Null,
    !.heritage = IF v >= 10 THEN "known" ELSE Null]

Columns(v) == 2 .. v
Requires == Columns(Current)      \* what a store's statements name

-----------------------------------------------------------------------------
(* Migrations: [ok, version, schema, facts] of the transaction from v to v + 1 *)

Failed == [ok |-> FALSE, version |-> version, schema |-> schema, facts |-> facts]
Done(v, f) == [ok |-> TRUE, version |-> v, schema |-> schema \cup {v}, facts |-> f]

\* Versions 2 to 6 only add tables and columns, and fail over a schema that has them
AddPart(v) == IF v + 1 \in schema THEN Failed ELSE Done(v + 1, facts)

\* Mutant: an unknown qualification becomes "not qualified"
AddIdentitiesM == IF 7 \in schema THEN Failed
    ELSE Done(7, [facts EXCEPT !.identities = {<<IF facts.qualified = Null THEN "no" ELSE facts.qualified, "">>}])

\* Version 7 groups the occurrences, an unknown qualification staying unknown
AddIdentities == IF 7 \in schema THEN Failed
                 ELSE Done(7, [facts EXCEPT !.identities = {<<facts.qualified, "">>}])

\* Version 8 copies them into a table with qualifiers, whatever the schema already has: two
\* rows that differ in their qualifier alone would collide
AddQualifiers ==
    IF Cardinality({p[1] : p \in facts.identities}) < Cardinality(facts.identities) THEN Failed
    ELSE Done(8, [facts EXCEPT !.identities = {<<p[1], "">> : p \in @}])

\* Version 9 adds the column if it is missing and fills in what older searches assumed
AddExportNames == Done(9, [facts EXCEPT !.exportName = IF @ = Null THEN "known" ELSE @])

\* Versions 10 and 11 look at the version again under the write lock
Recheck(admitted, result) ==
    IF version \notin admitted THEN Failed
    ELSE IF version >= result.version THEN [Failed EXCEPT !.ok = TRUE]
    ELSE result

AddHeritage == Recheck({9, 10, 11}, Done(10, facts))
AddProvenance == Recheck({10, 11}, Done(11, [facts EXCEPT !.provenance = Null]))

Migrated(v) == CASE v = 6 -> AddIdentities [] v = 7 -> AddQualifiers [] v = 8 -> AddExportNames
                 [] v = 9 -> AddHeritage [] v = 10 -> AddProvenance [] OTHER -> AddPart(v)

-----------------------------------------------------------------------------
(* Opening *)

Idle == [at |-> "closed", step |-> 0, boot |-> FALSE]

Init == /\ \E v \in Legacy \cup {0} :
            /\ version = v /\ schema = Columns(v)
            /\ \E q \in {Null, "yes"} : facts = IF v = 0 THEN Nothing ELSE Written(v, q)
            /\ owner = IF v = 0 THEN Null ELSE Identity[CHOOSE o \in Openers : TRUE]
            /\ control \in {Null} \cup (IF v >= 9 THEN {owner} ELSE {})
        /\ opener = [o \in Openers |-> Idle]
        /\ opens = 0 /\ history = {}

Others(o) == Openers \ {o}
Opening(o) == opener[o].at \notin {"closed", "open"}

Move(o, at, step) == opener' = [opener EXCEPT ![o].at = at, ![o].step = step]
Fail(o) == opener' = [opener EXCEPT ![o] = Idle]

\* Mutant: the exclusive lock is not held while the first opener migrates
BeginM(o) ==
    /\ opener[o].at = "closed" /\ opens < MaxOpens /\ opens' = opens + 1
    /\ \/ /\ control = Null /\ control' = Identity[o]
          /\ opener' = [opener EXCEPT ![o] = [at |-> "version", step |-> 0, boot |-> TRUE]]
       \/ /\ control = Identity[o] /\ UNCHANGED control
          /\ Move(o, "existing", 0)
    /\ UNCHANGED <<version, schema, facts, owner, history>>

\* The first opener creates the control database and opens under the exclusive lock; the
\* others open a database that is already a store's, under the shared one
Begin(o) ==
    /\ opener[o].at = "closed" /\ opens < MaxOpens /\ opens' = opens + 1
    /\ ~\E p \in Others(o) : opener[p].boot
    /\ \/ /\ control = Null /\ control' = Identity[o]
          /\ ~\E p \in Others(o) : Opening(p)
          /\ opener' = [opener EXCEPT ![o] = [at |-> "version", step |-> 0, boot |-> TRUE]]
       \/ /\ control = Identity[o] /\ UNCHANGED control
          /\ Move(o, "existing", 0)
    /\ UNCHANGED <<version, schema, facts, owner, history>>

\* open_existing refuses a file without the schema
Existing(o) ==
    /\ opener[o].at = "existing"
    /\ IF version = 0 THEN Fail(o) ELSE Move(o, "version", 0)
    /\ UNCHANGED <<version, schema, facts, owner, control, opens, history>>

\* ensure_schema reads the version and picks the chain of migrations
ReadVersion(o) ==
    /\ opener[o].at = "version"
    /\ IF version = 0 THEN Move(o, "create", 0)
       ELSE IF owner # Identity[o] THEN Fail(o)
       ELSE IF version <= 8 THEN Move(o, "migrate", version)
       ELSE Move(o, "heritage", 0)
    /\ history' = IF /\ version \in 2 .. 8 /\ owner = Identity[o]
                     /\ \E p \in Others(o) : opener[p].at = "migrate"
                  THEN history \cup {"overlapped"} ELSE history
    /\ UNCHANGED <<version, schema, facts, owner, control, opens>>

\* Every table in one transaction; it fails over a schema another opener made meanwhile
Create(o) ==
    /\ opener[o].at = "create"
    /\ IF version # 0 THEN Fail(o) /\ UNCHANGED <<version, schema, owner>>
       ELSE /\ version' = Current /\ schema' = Requires /\ owner' = Identity[o]
            /\ Move(o, "heritage", 0)
    /\ UNCHANGED <<facts, control, opens, history>>

Migrate(o) ==
    /\ opener[o].at = "migrate"
    /\ \E m \in {Migrated(opener[o].step)} :
        /\ version' = m.version /\ schema' = m.schema /\ facts' = m.facts
        /\ IF ~m.ok THEN Fail(o)
           ELSE IF opener[o].step < 8 THEN Move(o, "migrate", opener[o].step + 1)
           ELSE Move(o, "heritage", 0)
    /\ UNCHANGED <<owner, control, opens, history>>

\* Mutant: the version is not read again before the last migration
ReadAgainM(o) ==
    /\ opener[o].at = "heritage"
    /\ IF version = 9 THEN Move(o, "heritage", 9) ELSE Move(o, "recorded", 0)
    /\ UNCHANGED <<version, schema, facts, owner, control, opens, history>>

\* The last two migrations follow from the version as it then is
ReadAgain(o) ==
    /\ opener[o].at \in {"heritage", "provenance"} /\ opener[o].step = 0
    /\ LET v == IF opener[o].at = "heritage" THEN 9 ELSE 10
       IN  IF version = v THEN Move(o, opener[o].at, v)
           ELSE Move(o, IF v = 9 THEN "provenance" ELSE "recorded", 0)
    /\ UNCHANGED <<version, schema, facts, owner, control, opens, history>>

LastMigrations(o) ==
    /\ opener[o].at \in {"heritage", "provenance"} /\ opener[o].step # 0
    /\ \E m \in {Migrated(opener[o].step)} :
        /\ version' = m.version /\ schema' = m.schema /\ facts' = m.facts
        /\ IF ~m.ok THEN Fail(o)
           ELSE Move(o, IF opener[o].at = "heritage" THEN "provenance" ELSE "recorded", 0)
    /\ UNCHANGED <<owner, control, opens, history>>

\* The use is recorded and the store handed out
Opened(o) ==
    /\ opener[o].at = "recorded"
    /\ opener' = [opener EXCEPT ![o] = [Idle EXCEPT !.at = "open"]]
    /\ UNCHANGED <<version, schema, facts, owner, control, opens, history>>

\* An open store refreshes the document, or is closed
Write(o) ==
    /\ opener[o].at = "open" /\ Requires \subseteq schema
    /\ facts' = Truth
    /\ UNCHANGED <<version, schema, owner, control, opener, opens, history>>

Close(o) ==
    /\ opener[o].at = "open" /\ Fail(o)
    /\ UNCHANGED <<version, schema, facts, owner, control, opens, history>>

\* An SQLite error or a kill between two steps
Die(o) ==
    /\ Opening(o) /\ Fail(o)
    /\ history' = IF opener[o].boot /\ version \in 2 .. 8 THEN history \cup {"interrupted"} ELSE history
    /\ UNCHANGED <<version, schema, facts, owner, control, opens>>

Next == \E o \in Openers :
    \/ Begin(o) \/ Existing(o) \/ ReadVersion(o) \/ Create(o) \/ Migrate(o)
    \/ ReadAgain(o) \/ LastMigrations(o) \/ Opened(o)
    \/ Write(o) \/ Close(o) \/ Die(o)

Spec == Init /\ [][Next]_vars

-----------------------------------------------------------------------------
\* A store that was handed out belongs to the workspace, whatever other openers do to the
\* file, and finds every table and column its statements name, unless the migrations of an
\* old schema overlapped: two openers then set the version back under each other (only the
\* last two migrations look at it again under the write lock). They overlap only when the
\* first opener, which holds the exclusive lock, was interrupted.
OpenStoresHaveTheirSchema ==
    /\ \A o \in Openers : opener[o].at = "open" =>
            owner = Identity[o] /\ (Requires \subseteq schema \/ "overlapped" \in history)
    /\ "overlapped" \in history => "interrupted" \in history

\* A migrated row claims nothing its source did not say: what an older schema did not record
\* is unknown, never false, so that a proof cannot drop a file for it.
MigratedRowsClaimNothing ==
    /\ facts.qualified \in {Null, Truth.qualified}
    /\ \A p \in facts.identities : p[1] \in {Null, "yes"} /\ p[2] \in Qualifiers \cup {""}
    /\ facts.provenance \in {Null, Truth.provenance}
=============================================================================
