--------------------------- MODULE PromptVersions ---------------------------
(***************************************************************************)
(* The stores of versions: `keyed' is prompt-version-store.js, one file    *)
(* for all prompts, behind /api/versioning; `named' is                     *)
(* prompt-versioning.js, a file for the prompts of each slug, behind       *)
(* /api/prompts and /api/rollback-check, whose check saves an evaluation   *)
(* score and puts the previous version back when the score has dropped;    *)
(* `config' is model-config.js, one file of the settings of the language   *)
(* model, which are a content here, behind /api/model-config.              *)
(*                                                                         *)
(* A save reads its file, appends to what it read, and writes all of it;   *)
(* writeFile first cuts the file.  No lock is held.                        *)
(***************************************************************************)
EXTENDS Naturals, Sequences, FiniteSets, FiniteSetsExt

CONSTANTS
  Client,        \* callers of the API
  Prompt,        \* promptKey, name
  Slug,          \* names in lower case, without special characters
  Content,
  BuiltIn,       \* DEFAULT_MODEL_CONFIG
  MaxVersions,   \* bound on the length of a file
  MaxScore,      \* a score of 1.0
  Threshold,     \* dropThreshold, in hundredths
  World          \* what may happen: every behaviour is in one of these

WorldType ==
  [store   : {"keyed", "named", "config"},
   prompts : SUBSET Prompt,
   slug    : [Prompt -> Slug],
   serial  : BOOLEAN,    \* one request at a time
   faults  : BOOLEAN,    \* reads may fail, and writes end with the file cut
   checks  : BOOLEAN]    \* rollback checks are asked for

ASSUME VersionConstants ==
  /\ MaxVersions \in Nat /\ MaxScore \in Nat \ {0} /\ Threshold \in Nat
  /\ World \subseteq WorldType
  /\ BuiltIn \notin Content

VARIABLES
  world,      \* the world of this behaviour; it never changes
  files,      \* the versions in each file, oldest first
  latest,     \* the score of the project's latest snapshot, MaxScore if none
  request,    \* what each client's request is at
  answered    \* the versions that were answered

vars == <<world, files, latest, request, answered>>

Version == [prompt : Prompt, version : Nat, content : Content \cup {BuiltIn}]
File == Slug \cup {"all"}

\* Prompts whose names have one slug share their file.
FileOf(p) == IF world.store = "named" THEN world.slug[p] ELSE "all"

Default(p) == [prompt |-> p, version |-> 1, content |-> BuiltIn]

\* What a request may read: a file that cannot be read counts as an empty one,
\* and without settings there are those of the program.
Entries(p) ==
  LET file == {files[FileOf(p)]} \cup (IF world.faults THEN {<<>>} ELSE {})
  IN {IF world.store = "config" /\ e = <<>> THEN <<Default(p)>> ELSE e :
        e \in file}

\* Where the versions of a prompt are in a file.
Of(entries, p) == {i \in DOMAIN entries : entries[i].prompt = p}

\* The greatest version of the prompt in the keyed store; currentVersion of
\* the whole file, that of its last entry, in the other two.
CurrentVersion(entries, p) ==
  IF world.store = "keyed"
  THEN Max({0} \cup {entries[i].version : i \in Of(entries, p)})
  ELSE IF entries = <<>> THEN 0 ELSE entries[Len(entries)].version

\* at: idle; write, cut: in a write of payload; score, drop, back: in a check.
Idle == [at |-> "idle", prompt |-> CHOOSE p \in Prompt : TRUE,
         payload |-> <<>>, before |-> MaxScore, to |-> 0]

Init ==
  /\ world \in World
  /\ files = [f \in File |-> <<>>]
  /\ latest = MaxScore
  /\ request = [c \in Client |-> Idle]
  /\ answered = {}

MayBegin(c) ==
  /\ request[c].at = "idle"
  /\ world.serial => \A d \in Client : request[d].at = "idle"
-----------------------------------------------------------------------------
(* saveVersion, savePromptVersion *)

\* Mutant of NextVersion: every store counts over the whole file.
NextVersionOfFile(entries, p) == Len(entries) + 1

NextVersion(entries, p) == CurrentVersion(entries, p) + 1

\* Mutant of WithVersion: the oldest version makes room.
WithVersionOfTwo(entries, p, content) ==
  Append(IF Len(entries) < 2 THEN entries ELSE Tail(entries),
         [prompt |-> p, version |-> NextVersion(entries, p),
          content |-> content])

WithVersion(entries, p, content) ==
  Append(entries, [prompt |-> p, version |-> NextVersion(entries, p),
                   content |-> content])

\* The request has read the entries and knows what it will write.
StartWrite(c, p, entries, content) ==
  /\ Len(entries) < MaxVersions
  /\ request' = [request EXCEPT ![c].at = "write", ![c].prompt = p,
                   ![c].payload = WithVersion(entries, p, content)]
  /\ UNCHANGED <<world, files, latest, answered>>

Save(c) ==
  /\ MayBegin(c)
  /\ world.store # "config"
  /\ \E p \in world.prompts, content \in Content : \E e \in Entries(p) :
       StartWrite(c, p, e, content)

\* updateModelConfig, which may set what is set already.
Update(c) ==
  /\ MayBegin(c)
  /\ world.store = "config"
  /\ \E p \in world.prompts, content \in Content \cup {BuiltIn} :
       \E e \in Entries(p) : StartWrite(c, p, e, content)

Cut(c) ==
  /\ request[c].at = "write"
  /\ files' = [files EXCEPT ![FileOf(request[c].prompt)] = <<>>]
  /\ request' = [request EXCEPT ![c].at = "cut"]
  /\ UNCHANGED <<world, latest, answered>>

Fill(c) ==
  /\ request[c].at = "cut"
  /\ files' = [files EXCEPT ![FileOf(request[c].prompt)] = request[c].payload]
  /\ answered' = IF world.serial
                  THEN answered \cup {request[c].payload[Len(request[c].payload)]}
                  ELSE answered
  /\ request' = [request EXCEPT ![c] = Idle]
  /\ UNCHANGED <<world, latest>>

\* The write fails or the process ends: what is left does not parse, and
\* readEntries and loadHistory take it for an empty file, and loadStore for
\* none.
Break(c) ==
  /\ world.faults
  /\ request[c].at = "cut"
  /\ request' = [request EXCEPT ![c] = Idle]
  /\ UNCHANGED <<world, files, latest, answered>>
-----------------------------------------------------------------------------
(* rollbackPrompt and checkAndRollback *)

\* The content of version n of the file, whichever prompt it was saved for,
\* becomes a new version.
RollbackTo(c, p, n) ==
  \E e \in Entries(p) : \E i \in DOMAIN e :
    e[i].version = n /\ StartWrite(c, p, e, e[i].content)

Rollback(c) ==
  /\ world.store = "named" /\ MayBegin(c)
  /\ \E p \in world.prompts : \E n \in 1 .. MaxVersions : RollbackTo(c, p, n)

\* getScoreTrend.
Check(c) ==
  /\ world.store = "named" /\ world.checks /\ MayBegin(c)
  /\ \E p \in world.prompts :
       request' = [request EXCEPT ![c].at = "score", ![c].prompt = p,
                                  ![c].before = latest]
  /\ UNCHANGED <<world, files, latest, answered>>

Dropped(before, score) ==
  before > 0 /\ before > score /\ (before - score) * 100 > Threshold * before

\* runEvalSuite and saveSnapshot.
Score(c) ==
  /\ request[c].at = "score"
  /\ \E score \in 0 .. MaxScore :
       /\ latest' = score
       /\ request' = [request EXCEPT ![c] =
            IF Dropped(@.before, score) THEN [@ EXCEPT !.at = "drop"]
                                        ELSE Idle]
  /\ UNCHANGED <<world, files, answered>>

\* Mutant of ReadHistory: the current version is put back.
ReadHistoryCurrent(c) ==
  /\ request[c].at = "drop"
  /\ \E e \in Entries(request[c].prompt) :
       LET current == CurrentVersion(e, request[c].prompt) IN
       request' = [request EXCEPT ![c] =
         IF current > 1 THEN [@ EXCEPT !.at = "back", !.to = current]
                        ELSE Idle]
  /\ UNCHANGED <<world, files, latest, answered>>

\* getPromptHistory: the version before the file's current one.
ReadHistory(c) ==
  /\ request[c].at = "drop"
  /\ \E e \in Entries(request[c].prompt) :
       LET current == CurrentVersion(e, request[c].prompt) IN
       request' = [request EXCEPT ![c] =
         IF current > 1 THEN [@ EXCEPT !.at = "back", !.to = current - 1]
                        ELSE Idle]
  /\ UNCHANGED <<world, files, latest, answered>>

\* rollbackPrompt reads the history again.
PutBack(c) ==
  /\ request[c].at = "back"
  /\ RollbackTo(c, request[c].prompt, request[c].to)

NothingToPutBack(c) ==
  /\ request[c].at = "back"
  /\ \E e \in Entries(request[c].prompt) :
       \A i \in DOMAIN e : e[i].version # request[c].to
  /\ request' = [request EXCEPT ![c] = Idle]
  /\ UNCHANGED <<world, files, latest, answered>>
-----------------------------------------------------------------------------
Next ==
  \E c \in Client :
    \/ Save(c) \/ Update(c) \/ Cut(c) \/ Fill(c) \/ Break(c)
    \/ Rollback(c) \/ Check(c) \/ Score(c) \/ ReadHistory(c)
    \/ PutBack(c) \/ NothingToPutBack(c)

Spec == Init /\ [][Next]_vars
-----------------------------------------------------------------------------
(* buildRollbackPlan with the policy's minimum of two versions.  scores are *)
(* those of the request, 0 for versions it does not name; 0 is no version.  *)

\* sort by score, then by version, highest first.
Before(scores, v, w) ==
  scores[v] > scores[w] \/ (scores[v] = scores[w] /\ v > w)

Eligible(current, scores, min) == {v \in 1 .. current : scores[v] >= min}

First(S, scores) == CHOOSE v \in S : \A w \in S \ {v} : Before(scores, v, w)

\* Mutant of Selected: the preference for an older version is forgotten.
SelectedBest(current, scores, min, preferPrevious) ==
  LET eligible == Eligible(current, scores, min)
  IN IF current < 2 \/ eligible = {} THEN 0 ELSE First(eligible, scores)

Selected(current, scores, min, preferPrevious) ==
  LET eligible == Eligible(current, scores, min)
      older == {v \in eligible : v < current}
  IN IF current < 2 \/ eligible = {} THEN 0
     ELSE First(IF preferPrevious /\ older # {} THEN older ELSE eligible,
                scores)
-----------------------------------------------------------------------------
(* Properties *)

\* Every version of the keyed store is the number of its prompt's versions up
\* to there; in the other stores it is its place in the file, whichever
\* prompts share it.
Ordinal(entries, i) ==
  Cardinality({j \in Of(entries, entries[i].prompt) : j <= i})

Counted(entries) ==
  \A i \in DOMAIN entries :
    entries[i].version =
      IF world.store = "keyed" THEN Ordinal(entries, i) ELSE i

\* Versions go up by one, those of a prompt in the keyed store and those of a
\* file in the others, whatever requests overlap, reads fail and files are
\* lost: no number stands for two entries that a version is looked up among.
VersionsCount == \A f \in File : Counted(files[f])

\* If requests do not overlap and nothing fails, a version that was answered
\* is there, under its number and with its content, for good, also when other
\* prompts share its file.
AnswerIsKept ==
  world.serial /\ ~ world.faults =>
    \A v \in answered :
      \/ \E i \in DOMAIN files[FileOf(v.prompt)] :
           files[FileOf(v.prompt)][i] = v
      \/ \E c \in Client : request[c].at = "cut"

\* A check undoes the version it found current, and no other: when requests
\* do not overlap, the new version has the content of the one before it in
\* the file, which may be another prompt's where two share the file.
CheckUndoes ==
  world.serial =>
    \A c \in Client :
      request[c].to # 0 /\ request[c].at = "write" =>
        LET new == request[c].payload
        IN new[Len(new)].content = new[Len(new) - 2].content

\* The plan, which is made for the keyed store, proposes a version whose score
\* is good enough and, where it can, an older one than the current; none that
\* it could propose instead has a better score.
PlanIsBest ==
  world.store = "keyed" => \A p \in Prompt :
    LET current == CurrentVersion(files["all"], p) IN
    \A scores \in [1 .. current -> 0 .. MaxScore], min \in 0 .. MaxScore,
       prefer \in BOOLEAN :
      LET v == Selected(current, scores, min, prefer)
          good == {w \in 1 .. current : scores[w] >= min}
          fair == IF prefer /\ good # {current} THEN good \ {current} ELSE good
      IN IF current < 2 \/ good = {} THEN v = 0
         ELSE v \in fair /\ \A w \in fair : scores[w] <= scores[v]
=============================================================================
