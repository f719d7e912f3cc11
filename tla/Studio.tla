------------------------------- MODULE Studio -------------------------------
(***************************************************************************)
(* What a workspace tells about its project: the profile, the answers to   *)
(* the questionnaire, and the readiness that is computed from both and     *)
(* from its documents.                                                     *)
(*                                                                         *)
(* One workspace; a request may also come from another organization.       *)
(* Every statement is a step.  The statements of a bulk are one            *)
(* transaction, which holds the rows it has written until it ends; the     *)
(* database breaks a circle of waiting transactions, as PostgreSQL does.   *)
(***************************************************************************)
EXTENDS Integers, Sequences, FiniteSetsExt

CONSTANTS Edits,          \* requests
          EditInputs,     \* what they may bring, a subset of EditRequests
          Questions,      \* the rows of questions in the default set
          Required, Shown,  \* of those, the required and the active ones
          ShowIf,         \* the rule of each question, or NoRule
          Values,         \* answers: a scalar, or a list
          FirstProfiles,  \* what the profile may be at first
          UnknownQuestion, NoRule, NoAnswer, NoRequest, NoOne

General == {"project_name", "project_description", "product_type", "target_users",
            "main_problem", "main_use_cases"}
Sections == {"frontend", "backend", "data", "infrastructure", "ai", "development_standards"}

\* A general field is empty (0) or not (1); a section has so many keys with a
\* value that is not empty.
Levels(f) == IF f \in General THEN {0, 1} ELSE 0 .. 3
Profiles == {p \in [General \union Sections -> 0 .. 3] : \A f \in General : p[f] <= 1}

EditRequests ==
  [op : {"answer"}, own : BOOLEAN, question : Questions \union {UnknownQuestion}, value : Values]
    \union
  [op : {"bulk"}, own : BOOLEAN,
   items : Seq([question : Questions \union {UnknownQuestion}, value : Values])]
    \union
  [op : {"profile"}, own : BOOLEAN, fields : SUBSET (General \union Sections), level : 0 .. 3]
    \union
  [op : {"readiness"}, own : BOOLEAN]

ASSUME StudioAssumption ==
  /\ EditInputs \subseteq EditRequests
  /\ Required \subseteq Questions
  /\ Shown \subseteq Questions
  /\ FirstProfiles \subseteq Profiles
  /\ IsFiniteSet(Required) /\ Cardinality(Required) < 100
  /\ UnknownQuestion \notin Questions
  /\ NoAnswer \notin Values
  /\ NoRequest \notin EditRequests
  /\ NoOne \notin Edits

VARIABLES
  profile,    \* project_profiles: the row of the workspace
  answer,     \* answers: the value of each row, or NoAnswer
  author,     \* the request that wrote it
  holder,     \* the open transaction that has written the row
  succeeded,  \* there is a generated document with the status succeeded
  edit,       \* what each request brings
  epc,        \* where it is
  item,       \* the item of the bulk it is at
  draft,      \* the profile it has read, and means to write
  seen        \* what a readiness request has computed so far

studioTables == <<profile, answer, author, holder, succeeded>>
studioVars == <<studioTables, edit, epc, item, draft, seen>>

EditStages == {"idle", "workspace", "question", "upsert", "begin", "write", "read", "save",
               "completeness", "missing", "documents", "ok", "refused"}

StudioTypeOK ==
  /\ profile \in Profiles
  /\ answer \in [Questions -> Values \union {NoAnswer}]
  /\ author \in [Questions -> Edits \union {NoOne}]
  /\ holder \in [Questions -> Edits \union {NoOne}]
  /\ succeeded \in BOOLEAN
  /\ edit \in [Edits -> EditInputs \union {NoRequest}]
  /\ epc \in [Edits -> EditStages]
  /\ item \in [Edits -> Nat]
  /\ draft \in [Edits -> Profiles]
  /\ seen \in [Edits -> [profile : 0 .. 100, answered : Nat, total : Nat,
                         missing : SUBSET Questions, score : 0 .. 100]]

NothingSeen == [profile |-> 0, answered |-> 0, total |-> 0, missing |-> {}, score |-> 0]
Blankness == [f \in General \union Sections |-> 0]

StudioInit ==
  /\ profile \in FirstProfiles
  /\ answer = [q \in Questions |-> NoAnswer]
  /\ author = [q \in Questions |-> NoOne]
  /\ holder = [q \in Questions |-> NoOne]
  /\ succeeded = FALSE
  /\ edit = [r \in Edits |-> NoRequest]
  /\ epc = [r \in Edits |-> "idle"]
  /\ item = [r \in Edits |-> 1]
  /\ draft = [r \in Edits |-> Blankness]
  /\ seen = [r \in Edits |-> NothingSeen]

Turn(r, from, to) == epc[r] = from /\ epc' = [epc EXCEPT ![r] = to]
Check(r, from, to) == Turn(r, from, to) /\ UNCHANGED <<studioTables, edit, item, draft, seen>>

----------------------------------------------------------------------------
Submit(r, i) ==
  /\ Turn(r, "idle", "workspace")
  /\ edit' = [edit EXCEPT ![r] = i]
  /\ UNCHANGED <<studioTables, item, draft, seen>>

\* The first statement of each operation once the workspace is the caller's.
AfterWorkspace(i) ==
  CASE i.op = "answer" -> "question"
    [] i.op = "bulk" -> IF i.items = << >> THEN "refused" ELSE "begin"
    [] i.op = "profile" -> "read"
    [] i.op = "readiness" -> "completeness"

ResolveWorkspace(r) ==
  Check(r, "workspace", IF edit[r].own THEN AfterWorkspace(edit[r]) ELSE "refused")

\* A query or a statement outside a transaction fails.
Falter(r) ==
  /\ epc[r] \in EditStages \ {"idle", "write", "ok", "refused"}
  /\ Check(r, epc[r], "refused")

\* The generation of a document succeeds, at any time.
DocumentSucceeds ==
  /\ ~ succeeded
  /\ succeeded' = TRUE
  /\ UNCHANGED <<profile, answer, author, holder, edit, epc, item, draft, seen>>

----------------------------------------------------------------------------
(***************************************************************************)
(* One answer: the question is looked up, then the row inserted or updated.*)
(***************************************************************************)
GetQuestion(r) ==
  Check(r, "question", IF edit[r].question \in Questions THEN "upsert" ELSE "refused")

UpsertAnswer(r) ==
  LET q == edit[r].question IN
  /\ Turn(r, "upsert", "ok")
  /\ holder[q] = NoOne
  /\ answer' = [answer EXCEPT ![q] = edit[r].value]
  /\ author' = [author EXCEPT ![q] = r]
  /\ UNCHANGED <<profile, holder, succeeded, edit, item, draft, seen>>

----------------------------------------------------------------------------
(***************************************************************************)
(* A bulk of answers, in the order of the request.                         *)
(***************************************************************************)
BeginBulk(r) == Check(r, "begin", "write")

Items(r) == edit[r].items
Writing(r) == epc[r] = "write" /\ item[r] <= Len(Items(r))
Target(r) == Items(r)[item[r]].question
LastItem(r, q) == Max({k \in DOMAIN Items(r) : Items(r)[k].question = q})
Written(r) == {Items(r)[k].question : k \in 1 .. item[r] - 1}

\* Mutant: the statements run outside the transaction.
WriteItemAtOnce(r) ==
  /\ Writing(r)
  /\ Target(r) \in Questions
  /\ holder[Target(r)] = NoOne
  /\ answer' = [answer EXCEPT ![Target(r)] = Items(r)[item[r]].value]
  /\ author' = [author EXCEPT ![Target(r)] = r]
  /\ item' = [item EXCEPT ![r] = @ + 1]
  /\ UNCHANGED <<profile, holder, succeeded, edit, epc, draft, seen>>

WriteItem(r) ==
  /\ Writing(r)
  /\ Target(r) \in Questions
  /\ holder[Target(r)] \in {NoOne, r}
  /\ holder' = [holder EXCEPT ![Target(r)] = r]
  /\ item' = [item EXCEPT ![r] = @ + 1]
  /\ UNCHANGED <<profile, answer, author, succeeded, edit, epc, draft, seen>>

\* The commit, whose reply may get lost: then the request answers an error.
CommitBulk(r) ==
  /\ ~ Writing(r)
  /\ Turn(r, "write", "ok") \/ Turn(r, "write", "refused")
  /\ answer' = [q \in Questions |-> IF q \in Written(r) THEN Items(r)[LastItem(r, q)].value
                                    ELSE answer[q]]
  /\ author' = [q \in Questions |-> IF q \in Written(r) THEN r ELSE author[q]]
  /\ holder' = [q \in Questions |-> IF holder[q] = r THEN NoOne ELSE holder[q]]
  /\ UNCHANGED <<profile, succeeded, edit, item, draft, seen>>

\* The deferred Rollback, after an unknown question or any error.
RollbackBulk(r) ==
  /\ Turn(r, "write", "refused")
  /\ holder' = [q \in Questions |-> IF holder[q] = r THEN NoOne ELSE holder[q]]
  /\ UNCHANGED <<profile, answer, author, succeeded, edit, item, draft, seen>>

----------------------------------------------------------------------------
(***************************************************************************)
(* The profile: read as a whole, written as a whole.                       *)
(***************************************************************************)
\* A general field is replaced by one that is not blank, a section by any that
\* is there.
ApplyUpsertRequest(p, i) ==
  [f \in DOMAIN p |->
     IF f \notin i.fields \/ (f \in General /\ i.level = 0) THEN p[f]
     ELSE IF f \in General THEN 1 ELSE i.level]

ReadProfile(r) ==
  /\ Turn(r, "read", "save")
  /\ draft' = [draft EXCEPT ![r] = ApplyUpsertRequest(profile, edit[r])]
  /\ UNCHANGED <<studioTables, edit, item, seen>>

SaveProfile(r) ==
  /\ Turn(r, "save", "ok")
  /\ profile' = draft[r]
  /\ UNCHANGED <<answer, author, holder, succeeded, edit, item, draft, seen>>

----------------------------------------------------------------------------
(***************************************************************************)
(* Readiness: three reads, one after the other.                            *)
(***************************************************************************)
\* Mutant: every general field counts as much as a name.
EqualWeight(f) == 8
Weight(f) == IF f \in {"project_name", "project_description"} THEN 8 ELSE 6

SectionScore(p, f) == (10 * p[f]) \div 3

CalculateCompleteness(p) ==
  Weight("project_name") * p["project_name"]
    + Weight("project_description") * p["project_description"]
    + Weight("product_type") * p["product_type"] + Weight("target_users") * p["target_users"]
    + Weight("main_problem") * p["main_problem"] + Weight("main_use_cases") * p["main_use_cases"]
    + SectionScore(p, "frontend") + SectionScore(p, "backend") + SectionScore(p, "data")
    + SectionScore(p, "infrastructure") + SectionScore(p, "ai")
    + SectionScore(p, "development_standards")

\* An answer that is null, "", [] or {} counts as none.
IsEmptyValue(v) == v = NoAnswer \/ v.items = {}

ValueEquals(v, expected) ==
  \/ IsEmptyValue(v) /\ IsEmptyValue(expected)
  \/ v = expected
ValueContains(v, expected) == ~ IsEmptyValue(v) /\ expected.items \subseteq v.items
ValueIn(v, expected) == ~ IsEmptyValue(v) /\ v.items \intersect expected.items # {}

\* A rule with an unknown operator hides nothing.
Evaluate(op, v, expected) ==
  CASE op = "equals"       -> ValueEquals(v, expected)
    [] op = "not_equals"   -> ~ ValueEquals(v, expected)
    [] op = "contains"     -> ValueContains(v, expected)
    [] op = "not_contains" -> ~ ValueContains(v, expected)
    [] op = "empty"        -> IsEmptyValue(v)
    [] op = "not_empty"    -> ~ IsEmptyValue(v)
    [] op = "in"           -> ValueIn(v, expected)
    [] op = "not_in"       -> ~ ValueIn(v, expected)
    [] OTHER               -> TRUE

\* The question a rule names must be shown itself to have an answer that counts.
IsVisible(q, answers) ==
  LET rule == ShowIf[q] IN
  rule = NoRule \/ Evaluate(rule.op, IF rule.key \in Shown THEN answers[rule.key] ELSE NoAnswer,
                            rule.value)

\* Mutant: an empty answer counts.
AnsweredAtAll(q, answers) == answers[q] # NoAnswer

Answered(q, answers) == ~ IsEmptyValue(answers[q])

Needed(answers) == {q \in Required \intersect Shown : IsVisible(q, answers)}

ReadCompleteness(r) ==
  /\ Turn(r, "completeness", "missing")
  /\ seen' = [seen EXCEPT ![r].profile = CalculateCompleteness(profile)]
  /\ UNCHANGED <<studioTables, edit, item, draft>>

ReadMissing(r) ==
  LET needed == Needed(answer)
      there == {q \in needed : Answered(q, answer)}
  IN /\ Turn(r, "missing", "documents")
     /\ seen' = [seen EXCEPT ![r].answered = Cardinality(there),
                             ![r].total = Cardinality(needed),
                             ![r].missing = {q \in needed : IsEmptyValue(answer[q])}]
     /\ UNCHANGED <<studioTables, edit, item, draft>>

QuestionnairePct(answered, total) == IF total = 0 THEN 100 ELSE (100 * answered) \div total

\* round(0.4 p + 0.4 q + 0.2 d)
CalculateReadinessScore(p, q, d) == (4 * p + 4 * q + 2 * d + 5) \div 10

ReadDocuments(r) ==
  LET s == seen[r]
      q == QuestionnairePct(s.answered, s.total)
  IN /\ Turn(r, "documents", "ok")
     /\ seen' = [seen EXCEPT ![r].score =
          CalculateReadinessScore(s.profile, q, IF succeeded THEN 100 ELSE 0)]
     /\ UNCHANGED <<studioTables, edit, item, draft>>

StudioNext ==
  \/ DocumentSucceeds
  \/ \E r \in Edits :
       \/ \E i \in EditInputs : Submit(r, i)
       \/ ResolveWorkspace(r) \/ Falter(r)
       \/ GetQuestion(r) \/ UpsertAnswer(r)
       \/ BeginBulk(r) \/ WriteItem(r) \/ CommitBulk(r) \/ RollbackBulk(r)
       \/ ReadProfile(r) \/ SaveProfile(r)
       \/ ReadCompleteness(r) \/ ReadMissing(r) \/ ReadDocuments(r)

StudioSpec == StudioInit /\ [][StudioNext]_studioVars

----------------------------------------------------------------------------
\* A bulk is saved as a whole or not at all (BulkUpsert): the answers of a bulk
\* come in the one step that ends it, each of its questions with the last value
\* the bulk has for it, and a bulk that is answered with success has saved them;
\* one that is answered with an error may have, if only the reply to its commit
\* was lost.  Until another request writes over it, each of them stays.
SavedWhole(r) ==
  /\ {q \in Questions : author'[q] = r} = {Items(r)[k].question : k \in DOMAIN Items(r)}
  /\ \A k \in DOMAIN Items(r) :
       LET q == Items(r)[k].question IN
       (\A l \in k + 1 .. Len(Items(r)) : Items(r)[l].question # q)
         => answer'[q] = Items(r)[k].value

BulksAreWhole ==
  [][\A r \in Edits :
       edit[r] # NoRequest /\ edit[r].op = "bulk" =>
         /\ epc[r] # "ok" /\ epc'[r] = "ok" => SavedWhole(r)
         /\ (\E q \in Questions : author[q] # r /\ author'[q] = r)
              => SavedWhole(r) /\ epc[r] = "write" /\ epc'[r] # "write"
         /\ \A q \in Questions :
              author[q] = r /\ author'[q] = r => answer'[q] = answer[q]]_studioVars

\* A workspace is told 100 only if the profile it was computed from is complete
\* in every field and section, no required question that the answers show was
\* without a real answer, and a document had succeeded (readiness.go, score.go):
\* rounding never makes up for what is missing.
ReadyMeansReady ==
  \A r \in Edits :
    seen[r].score = 100 =>
      seen[r].profile = 100 /\ seen[r].missing = {} /\ succeeded
=============================================================================
