--------------------------- MODULE CatalogSeeding ---------------------------
(***************************************************************************)
(* What a server does to the database before it serves: the role templates,*)
(* then the questions of its release with their options.  The functions of *)
(* postgres/bootstrap, which the command-line seeder runs too.             *)
(*                                                                         *)
(* There is no transaction and no lock: every statement is a step, other   *)
(* starts' statements come in between, and a start may end after any of    *)
(* them.  A release is its roles and its questions, in order; of a         *)
(* question's columns the release that wrote them stands for all.          *)
(***************************************************************************)
EXTENDS Naturals, FiniteSets, Sequences, SequencesExt

CONSTANTS Starts,       \* server starts
          Releases,     \* releases of the program
          ReleaseOf,    \* the release of each start
          RoleList,     \* of each release: its roles, each with its permissions
          QuestionList, \* of each release: its questions, each with its options
          MaxRows,      \* bound: equal rows of question_options
          NoRelease

RoleNames == UNION {{r.name : r \in ToSet(RoleList[v])} : v \in Releases}
Permissions == UNION {UNION {r.permissions : r \in ToSet(RoleList[v])} : v \in Releases}
QuestionKeys == UNION {{q.key : q \in ToSet(QuestionList[v])} : v \in Releases}
OptionValues == UNION {UNION {ToSet(q.options) : q \in ToSet(QuestionList[v])} : v \in Releases}

\* LoadStudioDefault accepts the list: it is not empty and its keys differ; the
\* role templates are a table of the program.
ASSUME SeedingAssumption ==
  /\ ReleaseOf \in [Starts -> Releases]
  /\ NoRelease \notin Releases
  /\ MaxRows \in Nat
  /\ \A v \in Releases :
       /\ RoleList[v] \in Seq(ToSet(RoleList[v])) \ {<< >>}
       /\ QuestionList[v] \in Seq(ToSet(QuestionList[v])) \ {<< >>}
       /\ \A q \in ToSet(QuestionList[v]) : q.options \in Seq(OptionValues)
       /\ \A i, j \in DOMAIN QuestionList[v] :
            QuestionList[v][i].key = QuestionList[v][j].key => i = j

VARIABLES
  roles,       \* roles: the names of the rows
  granted,     \* role_permissions: pairs of a role and a permission
  setActive,   \* the row of questionnaire_sets is there, default and active
  question,    \* questions: the release that wrote the row, or NoRelease
  active,      \* the questions whose active is true
  options,     \* question_options: how many rows of each question and value
  seeding,     \* where each start is
  position,    \* the role or the question it is at
  option,      \* the option it is at
  mixed        \* starts that ran while another one did

seedTables == <<roles, granted, setActive, question, active, options>>
seedVars == <<seedTables, seeding, position, option, mixed>>

SeedStages == {"off", "selectRole", "insertRole", "grant", "set", "select", "insert",
               "update", "clear", "option", "deactivate", "verify", "serving", "ended"}

SeedingTypeOK ==
  /\ roles \subseteq RoleNames
  /\ granted \subseteq RoleNames \X Permissions
  /\ setActive \in BOOLEAN
  /\ question \in [QuestionKeys -> Releases \union {NoRelease}]
  /\ active \subseteq QuestionKeys
  /\ options \in [QuestionKeys \X OptionValues -> 0 .. MaxRows]
  /\ seeding \in [Starts -> SeedStages]
  /\ position \in [Starts -> Nat]
  /\ option \in [Starts -> Nat]
  /\ mixed \subseteq Starts

SeedingInit ==
  /\ roles = {}
  /\ granted = {}
  /\ setActive = FALSE
  /\ question = [k \in QuestionKeys |-> NoRelease]
  /\ active = {}
  /\ options = [p \in QuestionKeys \X OptionValues |-> 0]
  /\ seeding = [s \in Starts |-> "off"]
  /\ position = [s \in Starts |-> 1]
  /\ option = [s \in Starts |-> 1]
  /\ mixed = {}

Running == {s \in Starts : seeding[s] \notin {"off", "serving", "ended"}}

Boot(s) ==
  /\ seeding[s] = "off"
  /\ seeding' = [seeding EXCEPT ![s] = "selectRole"]
  /\ mixed' = IF Running = {} THEN mixed ELSE mixed \union Running \union {s}
  /\ UNCHANGED <<seedTables, position, option>>

To(s, from, to) ==
  /\ seeding[s] = from
  /\ seeding' = [seeding EXCEPT ![s] = to]
  /\ UNCHANGED mixed

Keep(s, from, to) == To(s, from, to) /\ UNCHANGED <<seedTables, position, option>>

\* A statement fails, or the process crashes: run() returns or never does.
EndEarly(s) == s \in Running /\ Keep(s, seeding[s], "ended")

----------------------------------------------------------------------------
(***************************************************************************)
(* SeedRoles.  A role's name is unique.                                    *)
(***************************************************************************)
Role(s) == RoleList[ReleaseOf[s]][position[s]]

SelectRole(s) ==
  Keep(s, "selectRole", IF Role(s).name \in roles THEN "grant" ELSE "insertRole")

InsertRole(s) ==
  \/ Keep(s, "insertRole", "ended") /\ Role(s).name \in roles
  \/ /\ To(s, "insertRole", "grant")
     /\ Role(s).name \notin roles
     /\ roles' = roles \union {Role(s).name}
     /\ UNCHANGED <<granted, setActive, question, active, options, position, option>>

\* One insert for each permission; a row that is there already is left alone.
GrantPermission(s) ==
  /\ To(s, "grant", "grant")
  /\ \E p \in Role(s).permissions :
       /\ <<Role(s).name, p>> \notin granted
       /\ granted' = granted \union {<<Role(s).name, p>>}
  /\ UNCHANGED <<roles, setActive, question, active, options, position, option>>

NextRole(s) ==
  LET last == position[s] = Len(RoleList[ReleaseOf[s]]) IN
  /\ To(s, "grant", IF last THEN "set" ELSE "selectRole")
  /\ {Role(s).name} \X Role(s).permissions \subseteq granted
  /\ position' = [position EXCEPT ![s] = IF last THEN 1 ELSE @ + 1]
  /\ UNCHANGED <<seedTables, option>>

----------------------------------------------------------------------------
(***************************************************************************)
(* SeedQuestionnaires.  (set, key) is unique; question_options has no such *)
(* constraint.                                                             *)
(***************************************************************************)
Entry(s) == QuestionList[ReleaseOf[s]][position[s]]

UpsertQuestionnaireSet(s) ==
  /\ To(s, "set", "select")
  /\ setActive' = TRUE
  /\ UNCHANGED <<roles, granted, question, active, options, position, option>>

SelectQuestion(s) ==
  Keep(s, "select", IF question[Entry(s).key] = NoRelease THEN "insert" ELSE "update")

WriteQuestion(s) ==
  /\ question' = [question EXCEPT ![Entry(s).key] = ReleaseOf[s]]
  /\ active' = active \union {Entry(s).key}
  /\ UNCHANGED <<roles, granted, setActive, options, position, option>>

InsertQuestion(s) ==
  \/ Keep(s, "insert", "ended") /\ question[Entry(s).key] # NoRelease
  \/ To(s, "insert", "clear") /\ question[Entry(s).key] = NoRelease /\ WriteQuestion(s)

UpdateQuestion(s) == To(s, "update", "clear") /\ WriteQuestion(s)

\* On to the next option, question or step.
NextEntry(s, at) ==
  LET more == position[s] < Len(QuestionList[ReleaseOf[s]]) IN
  IF at <= Len(Entry(s).options)
  THEN /\ seeding' = [seeding EXCEPT ![s] = "option"]
       /\ option' = [option EXCEPT ![s] = at]
       /\ UNCHANGED position
  ELSE /\ seeding' = [seeding EXCEPT ![s] = IF more THEN "select" ELSE "deactivate"]
       /\ option' = [option EXCEPT ![s] = 1]
       /\ position' = [position EXCEPT ![s] = IF more THEN @ + 1 ELSE @]

\* Mutant: the options are only added to.
ClearNoOptions(s) ==
  /\ seeding[s] = "clear"
  /\ NextEntry(s, 1)
  /\ UNCHANGED <<seedTables, mixed>>

ClearOptions(s) ==
  /\ seeding[s] = "clear"
  /\ options' = [p \in DOMAIN options |-> IF p[1] = Entry(s).key THEN 0 ELSE options[p]]
  /\ NextEntry(s, 1)
  /\ UNCHANGED <<roles, granted, setActive, question, active, mixed>>

InsertOption(s) ==
  LET p == <<Entry(s).key, Entry(s).options[option[s]]>> IN
  /\ seeding[s] = "option"
  /\ options[p] < MaxRows
  /\ options' = [options EXCEPT ![p] = @ + 1]
  /\ NextEntry(s, option[s] + 1)
  /\ UNCHANGED <<roles, granted, setActive, question, active, mixed>>

ActiveKeys(s) == {q.key : q \in ToSet(QuestionList[ReleaseOf[s]])}

DeactivateMissing(s) ==
  /\ To(s, "deactivate", "verify")
  /\ active' = active \intersect ActiveKeys(s)
  /\ UNCHANGED <<roles, granted, setActive, question, options, position, option>>

\* VerifyStudioDefault counts: it asks neither which questions are active nor
\* what their options are.
Verified(s) == setActive /\ Cardinality(active) >= Len(QuestionList[ReleaseOf[s]])

VerifyStudioDefault(s) ==
  Keep(s, "verify", IF Verified(s) THEN "serving" ELSE "ended")

SeedingNext ==
  \E s \in Starts :
    \/ Boot(s) \/ EndEarly(s)
    \/ SelectRole(s) \/ InsertRole(s) \/ GrantPermission(s) \/ NextRole(s)
    \/ UpsertQuestionnaireSet(s) \/ SelectQuestion(s) \/ InsertQuestion(s) \/ UpdateQuestion(s)
    \/ ClearOptions(s) \/ InsertOption(s) \/ DeactivateMissing(s) \/ VerifyStudioDefault(s)

SeedingSpec == SeedingInit /\ [][SeedingNext]_seedVars

----------------------------------------------------------------------------
\* The tables hold what the release of this start brings: its roles with their
\* permissions at least, its questions and no others active, as it wrote them,
\* and each of their options as often as it lists it.
HoldsRelease(s) ==
  /\ \A r \in ToSet(RoleList[ReleaseOf[s]]) : {r.name} \X r.permissions \subseteq granted
  /\ active = ActiveKeys(s)
  /\ \A q \in ToSet(QuestionList[ReleaseOf[s]]) :
       /\ question[q.key] = ReleaseOf[s]
       /\ \A o \in OptionValues :
            options[<<q.key, o>>] = Cardinality({i \in DOMAIN q.options : q.options[i] = o})

\* A start that no other one ran beside leaves its release in the tables when it
\* begins to serve, whatever starts that ended early, that overlapped or that
\* were of another release had left there ("Safe to run multiple times",
\* questionnaire.go).
SeedingAloneRepairs ==
  [][\A s \in Starts \ mixed :
       seeding[s] = "verify" /\ seeding'[s] = "serving" => HoldsRelease(s)]_seedVars
=============================================================================
