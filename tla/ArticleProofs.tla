---------------------------- MODULE ArticleProofs ----------------------------
(***************************************************************************)
(* Proofs about the pass of Article: of the text, that a usable draft is   *)
(* stored or lost only to the database; of the image, that one attachment  *)
(* at most carries an article's key, that no post shows a stock image      *)
(* without its credit, that strict selection repeats no image and that a   *)
(* generator is asked only when rescue is spent; and the types of all of   *)
(* it.                                                                     *)
(***************************************************************************)
EXTENDS Article, SequenceTheorems, WellFoundedInduction, TLAPS

(* ------------------------------- the text ------------------------------ *)

Jobs == [on : Articles \cup {NoArticle}, phase : Phases, at : 1..Len(Order),
         asked : 0..(MaxRetries - 1), plain : BOOLEAN, nudged : BOOLEAN,
         draft : HardValid \cup {NoDraft}, seen : SUBSET HardValid]

\* Where a usable draft has been seen, only the repair and the store are left.
Well(j) ==
    /\ j \in Jobs
    /\ j.on = NoArticle <=> j.phase = "idle"
    /\ j.on # NoArticle /\ j.seen \cap Usable # {} => j.phase \in {"repair", "store"}

\* What may become of job i by an answer or a failure, as j.
Follows(i, j) ==
    /\ Well(j)
    /\ j.on = i.on \/ j.on = NoArticle
    /\ j.on = NoArticle => \/ i.phase = "store"
                           \/ j.seen \cap Usable = {}
                           \/ i.phase = "repair" /\ "mistyped" \in j.seen

TextInv == stored \subseteq Articles /\ taken \subseteq Articles /\ Well(job)

\* The order has a first place, an exchange a first request.
LEMMA FirstOnes == 1 \in 1..Len(Order) /\ 0 \in 0..(MaxRetries - 1)
  BY WritingAssumption

LEMMA EndedFollows ==
    ASSUME NEW i, NEW j \in Jobs,
           \/ i.phase = "store"
           \/ j.seen \cap Usable = {}
           \/ i.phase = "repair" /\ "mistyped" \in j.seen
    PROVE  Follows(i, Ended(j))
  <1>1. /\ Ended(j) \in Jobs /\ Ended(j).on = NoArticle
        /\ Ended(j).phase = "idle" /\ Ended(j).seen = j.seen
    BY FirstOnes DEF Ended, IdleJob, Jobs, Phases
  <1> QED
    BY <1>1 DEF Follows, Well

LEMMA AskingFollows ==
    ASSUME NEW i, NEW j \in Jobs, j.on = i.on, j.on # NoArticle,
           NEW phase \in {"research", "rewrite", "expand", "repair"},
           NEW n \in 1..Len(Order),
           phase = "repair" \/ j.seen \cap Usable = {}
    PROVE  Follows(i, Asking(j, phase, n))
  <1>1. /\ Asking(j, phase, n) \in Jobs /\ Asking(j, phase, n).on = j.on
        /\ Asking(j, phase, n).phase = phase /\ Asking(j, phase, n).seen = j.seen
    BY FirstOnes DEF Asking, Jobs, Phases
  <1> QED
    BY <1>1 DEF Follows, Well

LEMMA GivesUpFollows ==
    ASSUME NEW j, Well(j), j.phase \in {"rewrite", "expand", "repair"}
    PROVE  Follows(j, GivesUp(j))
  <1> USE DEF Well
  <1>1. CASE j.phase = "repair"
    <2>1. GivesUp(j) = [j EXCEPT !.phase = "store"]
      BY <1>1 DEF GivesUp
    <2>2. /\ GivesUp(j) \in Jobs /\ GivesUp(j).on = j.on /\ GivesUp(j).phase = "store"
      BY <2>1 DEF Jobs, Phases
    <2> QED
      BY <1>1, <2>2 DEF Follows
  <1>2. CASE j.phase # "repair" /\ j.at < Len(Order)
    <2>1. GivesUp(j) = Asking(j, "rewrite", j.at + 1)
      BY <1>2 DEF GivesUp
    <2>2. j.at + 1 \in 1..Len(Order)
      BY <1>2, WritingAssumption DEF Jobs
    <2> QED
      BY <1>2, <2>1, <2>2, AskingFollows
  <1>3. CASE j.phase # "repair" /\ ~(j.at < Len(Order))
    <2>1. GivesUp(j) = Ended(j)
      BY <1>3 DEF GivesUp
    <2> QED
      BY <1>3, <2>1, EndedFollows
  <1> QED
    BY <1>1, <1>2, <1>3

LEMMA SpentFollows ==
    ASSUME NEW j, Well(j), j.phase \in {"rewrite", "expand", "repair"}
    PROVE  Follows(j, Spent(j))
  <1>1. CASE j.asked + 1 < MaxRetries
    <2>1. Spent(j) = [j EXCEPT !.asked = j.asked + 1]
      BY <1>1 DEF Spent
    <2>2. Spent(j) \in Jobs /\ Spent(j).on = j.on /\ Spent(j).phase = j.phase
                            /\ Spent(j).seen = j.seen
      BY <1>1, <2>1, WritingAssumption DEF Well, Jobs
    <2> QED
      BY <2>2 DEF Follows, Well
  <1>2. CASE ~(j.asked + 1 < MaxRetries)
    BY <1>2, GivesUpFollows DEF Spent
  <1> QED
    BY <1>1, <1>2

\* An answer of kind k, whatever is seen of it.
LEMMA TakenFollows ==
    ASSUME NEW i, Well(i), i.phase \in {"rewrite", "expand", "repair"}, NEW k \in Kinds,
           NEW j, j = [i EXCEPT !.seen = @ \cup ({k} \cap HardValid)]
    PROVE  Follows(i, Taken(j, k))
  <1>0. /\ j \in Jobs /\ j.on = i.on /\ j.phase = i.phase /\ j.at = i.at
        /\ j.seen = i.seen \cup ({k} \cap HardValid)
    BY DEF Well, Jobs
  <1>a. i.on # NoArticle /\ (i.phase # "repair" => i.seen \cap Usable = {})
    BY DEF Well
  <1>1. ASSUME k \notin HardValid PROVE Follows(i, GivesUp(j))
    <2>1. j = i
      BY <1>0, <1>1 DEF Well, Jobs
    <2> QED
      BY <2>1, GivesUpFollows
  <1>2. CASE i.phase = "repair"
    <2>1. Taken(j, k) = Repaired(j, k)
      BY <1>0, <1>2 DEF Taken
    <2>2. CASE k = "mistyped"
      <3>1. Repaired(j, k) = Ended(j)
        BY <2>2 DEF Repaired, Usable
      <3>2. "mistyped" \in j.seen
        BY <1>0, <2>2 DEF HardValid
      <3> QED
        BY <1>0, <1>2, <2>1, <3>1, <3>2, EndedFollows
    <2>3. CASE k \in Usable
      <3>1. Repaired(j, k) = [j EXCEPT !.phase = "store", !.draft = k]
        BY <2>3 DEF Repaired, Usable
      <3>2. Repaired(j, k) \in Jobs /\ Repaired(j, k).on = j.on
                                    /\ Repaired(j, k).phase = "store"
        BY <1>0, <2>3, <3>1 DEF Jobs, Phases, Usable, HardValid
      <3> QED
        BY <1>0, <1>a, <2>1, <3>2 DEF Follows, Well
    <2>4. CASE k # "mistyped" /\ k \notin Usable
      <3>1. Repaired(j, k) = GivesUp(j) /\ k \notin HardValid
        BY <2>4 DEF Repaired, Usable, HardValid
      <3> QED
        BY <1>1, <2>1, <3>1
    <2> QED
      BY <2>2, <2>3, <2>4
  <1>3. CASE i.phase = "rewrite" /\ k = "short"
    <2>1. Taken(j, k) = Asking(j, "expand", j.at) /\ k \notin HardValid
      BY <1>0, <1>3 DEF Taken, HardValid
    <2>2. j.seen \cap Usable = {} /\ j.at \in 1..Len(Order)
      BY <1>0, <1>a, <1>3, <2>1 DEF Jobs
    <2> DEFINE phase == "expand"
    <2>3. phase \in {"research", "rewrite", "expand", "repair"} /\ Taken(j, k) = Asking(j, phase, j.at)
      BY <2>1
    <2> HIDE DEF phase
    <2>4. j.on # NoArticle
      BY <1>0, <1>a
    <2>5. Follows(i, Asking(j, phase, j.at))
      BY <1>0, <2>2, <2>3, <2>4, AskingFollows
    <2> QED
      BY <2>3, <2>5
  <1>4. CASE i.phase # "repair" /\ k \in HardValid
    <2>1. Taken(j, k) = Accepted(j, k)
      BY <1>0, <1>4 DEF Taken, HardValid
    <2>2. CASE k = "mistyped"
      <3>1. Accepted(j, k) = Ended(j) /\ j.seen \cap Usable = {}
        BY <1>0, <1>a, <1>4, <2>2 DEF Accepted, Usable
      <3> QED
        BY <1>0, <2>1, <3>1, EndedFollows
    <2>3. CASE k = "thin"
      <3> DEFINE r == Asking(j, "repair", j.at)
      <3>1. Accepted(j, k) = [r EXCEPT !.draft = k]
        BY <2>3 DEF Accepted
      <3>2. j.at \in 1..Len(Order)
        BY <1>0 DEF Jobs
      <3>3. r \in Jobs /\ r.on = j.on /\ r.phase = "repair"
        BY <1>0, <3>2, FirstOnes DEF Asking, Jobs, Phases
      <3> HIDE DEF r
      <3>4. Accepted(j, k) \in Jobs /\ Accepted(j, k).on = j.on
                                    /\ Accepted(j, k).phase = "repair"
        BY <1>4, <3>1, <3>3 DEF Jobs
      <3> QED
        BY <1>0, <1>a, <2>1, <3>4 DEF Follows, Well
    <2>4. CASE k = "good"
      <3>1. Accepted(j, k) = [j EXCEPT !.phase = "store", !.draft = k]
        BY <2>4 DEF Accepted
      <3>2. Accepted(j, k) \in Jobs /\ Accepted(j, k).on = j.on
                                    /\ Accepted(j, k).phase = "store"
        BY <1>0, <1>4, <3>1 DEF Jobs, Phases
      <3> QED
        BY <1>0, <1>a, <2>1, <3>2 DEF Follows, Well
    <2> QED
      BY <1>4, <2>2, <2>3, <2>4 DEF HardValid
  <1>5. CASE i.phase # "repair" /\ k \notin HardValid /\ ~(i.phase = "rewrite" /\ k = "short")
    <2>1. Taken(j, k) = GivesUp(j)
      BY <1>0, <1>5 DEF Taken
    <2> QED
      BY <1>1, <1>5, <2>1
  <1> QED
    BY <1>2, <1>3, <1>4, <1>5

\* A step of the text keeps the invariant, and ends a job only as Follows says.
TextMove == /\ TextInv' /\ stored \subseteq stored'
            /\ job.on = NoArticle \/ job.on \in stored' \/ Follows(job, job')

LEMMA WorksMoves ==
    ASSUME TextInv, NEW j, Works(j), Follows(job, j)
    PROVE  TextMove
  BY DEF TextMove, TextInv, Works, Follows

LEMMA TextStep ==
    ASSUME TextInv, TextNext
    PROVE  TextMove
  <1>w. Well(job)
    BY DEF TextInv
  <1>r. ASSUME job.phase = "research"
        PROVE  job \in Jobs /\ job.on # NoArticle /\ job.seen \cap Usable = {}
    BY <1>w, <1>r DEF Well
  <1>q. Grok \/ OpenAI => job.phase \in {"rewrite", "expand", "repair"}
    BY DEF Grok, OpenAI
  <1>1. ASSUME NEW a \in Articles, Begin(a) PROVE TextMove
    <2> DEFINE i == [IdleJob EXCEPT !.on = a]
    <2>1. /\ i \in Jobs /\ i.on = a /\ i.seen \cap Usable = {} /\ a # NoArticle
      BY FirstOnes, BatchAssumption DEF IdleJob, Jobs, Phases
    <2> HIDE DEF i
    <2>2. Follows(i, Asking(i, IF WebSearch THEN "research" ELSE "rewrite", 1))
      <3>1. (IF WebSearch THEN "research" ELSE "rewrite")
              \in {"research", "rewrite", "expand", "repair"}
        OBVIOUS
      <3> QED
        BY <2>1, <3>1, FirstOnes, AskingFollows
    <2>3. /\ job' = Asking(i, IF WebSearch THEN "research" ELSE "rewrite", 1)
          /\ stored' = stored /\ taken' = taken \cup {a} /\ job.on = NoArticle
      BY <1>1 DEF Begin, i
    <2> QED
      BY <2>2, <2>3 DEF TextMove, TextInv, Follows
  <1>2. ASSUME ResearchBusy PROVE TextMove
    <2>1. CASE job.asked + 1 < MaxRetries
      <3> DEFINE j == [job EXCEPT !.asked = @ + 1]
      <3>1. Works(j)
        BY <1>2, <2>1 DEF ResearchBusy
      <3>2. j \in Jobs /\ j.on = job.on /\ j.phase = "research" /\ j.seen = job.seen
        BY <1>2, <1>w, <2>1, WritingAssumption DEF Well, Jobs, ResearchBusy
      <3> HIDE DEF j
      <3> QED
        BY <1>2, <1>r, <3>1, <3>2, WorksMoves DEF Follows, Well, ResearchBusy
    <2>2. CASE ~(job.asked + 1 < MaxRetries)
      BY <1>2, <1>r, <2>2, EndedFollows, WorksMoves DEF ResearchBusy
    <2> QED
      BY <2>1, <2>2
  <1>3. ASSUME ResearchFails PROVE TextMove
    BY <1>3, <1>r, EndedFollows, WorksMoves DEF ResearchFails
  <1>4. ASSUME ResearchAnswers PROVE TextMove
    BY <1>4, <1>r, FirstOnes, AskingFollows, WorksMoves DEF ResearchAnswers
  <1>5. ASSUME Unavailable PROVE TextMove
    BY <1>5, <1>w, <1>q, SpentFollows, WorksMoves DEF Unavailable
  <1>6. ASSUME EffortRefused PROVE TextMove
    <2> DEFINE s == Spent(job)
               j == [s EXCEPT !.plain = IF job.asked + 1 < MaxRetries THEN TRUE ELSE @]
    <2>1. Works(j) /\ Follows(job, s)
      BY <1>6, <1>w, <1>q, SpentFollows DEF EffortRefused
    <2> HIDE DEF s
    <2>2. j \in Jobs /\ j.on = s.on /\ j.phase = s.phase /\ j.seen = s.seen
      BY <2>1 DEF Follows, Well, Jobs
    <2>3. Follows(job, j)
      BY <2>1, <2>2 DEF Follows, Well
    <2> QED
      BY <2>1, <2>3, WorksMoves
  <1>7. ASSUME GrokUseless \/ OpenAIRefused PROVE TextMove
    BY <1>7, <1>w, <1>q, GivesUpFollows, WorksMoves DEF GrokUseless, OpenAIRefused
  <1>8. ASSUME OpenAITruncated PROVE TextMove
    <2>1. CASE ~job.nudged /\ job.asked + 1 < MaxRetries
      <3> DEFINE j == [job EXCEPT !.asked = @ + 1, !.nudged = TRUE]
      <3>1. Works(j)
        BY <1>8, <2>1 DEF OpenAITruncated
      <3>4. job \in Jobs /\ job.asked + 1 \in 0..(MaxRetries - 1)
        BY <1>w, <2>1, WritingAssumption DEF Well, Jobs
      <3>2. j \in Jobs /\ j.on = job.on /\ j.phase = job.phase /\ j.seen = job.seen
        BY <3>4 DEF Jobs
      <3>3. Follows(job, j)
        BY <1>8, <1>q, <1>w, <3>2 DEF Follows, Well, OpenAITruncated
      <3> QED
        BY <3>1, <3>3, WorksMoves
    <2>2. CASE ~(~job.nudged /\ job.asked + 1 < MaxRetries)
      BY <1>8, <1>w, <1>q, <2>2, GivesUpFollows, WorksMoves DEF OpenAITruncated
    <2> QED
      BY <2>1, <2>2
  <1>9. ASSUME Answers PROVE TextMove
    <2> DEFINE Got(k) == Works(Taken([job EXCEPT !.seen = @ \cup ({k} \cap HardValid)], k))
    <2>0. \E kind \in Kinds : \E k \in Described(kind) : Got(k)
      BY <1>9 DEF Answers
    <2> HIDE DEF Got
    <2>1. PICK kind \in Kinds : \E k \in Described(kind) : Got(k)
      BY <2>0
    <2>3. PICK k \in Described(kind) : Got(k)
      BY <2>1
    <2>2. k \in Kinds
      BY <2>3 DEF Described, Kinds
    <2> QED
      BY <1>9, <1>w, <1>q, <2>2, <2>3, TakenFollows, WorksMoves DEF Answers, Got
  <1>10. ASSUME StoreText PROVE TextMove
    <2>1. /\ stored' = stored \cup {job.on} /\ job' = Ended(job) /\ taken' = taken
          /\ job.phase = "store" /\ job.on \in Articles /\ job \in Jobs
      BY <1>10, <1>w DEF StoreText, Well, Jobs
    <2>2. Follows(job, job')
      BY <2>1, EndedFollows
    <2> QED
      BY <2>1, <2>2 DEF TextMove, TextInv, Follows
  <1>11. ASSUME StoreTextFails PROVE TextMove
    BY <1>11, <1>w, EndedFollows, WorksMoves DEF StoreTextFails, Well
  <1> QED
    BY <1>1, <1>2, <1>3, <1>4, <1>5, <1>6, <1>7, <1>8, <1>9, <1>10, <1>11 DEF TextNext

\* The invariant of the text holds in the whole pass, whose new batch starts with
\* no article at work.
LEMMA TextInvariant == Spec => []TextInv
  <1>1. Init => TextInv
    BY FirstOnes DEF Init, TextInit, TextInv, Well, IdleJob, Jobs, Phases
  <1>2. TextInv /\ [Next]_vars => TextInv'
    <2> SUFFICES ASSUME TextInv, [Next]_vars PROVE TextInv'
      OBVIOUS
    <2>1. CASE Writes
      BY <2>1, TextStep DEF Writes, TextMove
    <2>2. CASE EndProcess
      BY <2>2, FirstOnes DEF EndProcess, TextInv, Well, IdleJob, Jobs, Phases
    <2>3. CASE Publishes \/ UNCHANGED vars
      BY <2>3 DEF Publishes, vars, textVars, TextInv
    <2> QED
      BY <2>1, <2>2, <2>3 DEF Next
  <1> QED
    BY <1>1, <1>2, PTL DEF Spec

\* Once a provider has given a usable text, the article is stored unless the
\* database refuses it, with the exception DraftIsNeverLost names (process_one,
\* repair_if_needed), for any providers, number of requests and articles.
THEOREM DraftKept == Spec => DraftIsNeverLost
  <1> DEFINE Keeps == (job.on # NoArticle /\ job'.on = NoArticle /\ job.on \notin stored')
                      => \/ job.phase = "store"
                         \/ job'.seen \cap Usable = {}
                         \/ job.phase = "repair" /\ "mistyped" \in job'.seen
  <1>1. TextInv /\ [Next]_vars => [Keeps]_textVars
    <2> SUFFICES ASSUME TextInv, [Next]_vars PROVE [Keeps]_textVars
      OBVIOUS
    <2>1. CASE Writes
      BY <2>1, TextStep DEF Writes, TextMove, Follows
    <2>2. CASE EndProcess
      BY <2>2 DEF EndProcess
    <2>3. CASE Publishes \/ UNCHANGED vars
      BY <2>3 DEF Publishes, vars
    <2> QED
      BY <2>1, <2>2, <2>3 DEF Next
  <1> QED
    BY <1>1, TextInvariant, PTL DEF Spec, DraftIsNeverLost

(* ------------------------------- the image ----------------------------- *)

RunFields == {"on", "at", "tries", "blind", "offered", "tried", "broken", "exhausted",
              "failed", "repeats", "seen", "got", "done", "count", "cand", "how", "id",
              "unkeyed"}
IsRun(r) == r = [f \in RunFields |-> r[f]]

\* The attachment is there and does not lack a credit it needs.
Sufficient(m) == m \in DOMAIN media /\ (media[m].cand # None => media[m].credited)

Choosing == {"try", "strict", "rescue", "upload"}

\* A run that is still looking for an image works on an article without a keyed
\* one; what it has uploaded shows what it chose; what it will save or show
\* suffices.
RunHolds(r) ==
    /\ IsRun(r)
    /\ r.at # "idle" => r.on \in Articles
    /\ r.at \in Choosing \cup {"credit", "identify"} => Keyed(r.on) = {}
    /\ r.at = "credit" => r.id \in DOMAIN media /\ media[r.id].cand = r.cand
    /\ r.at = "identify" => r.id \in DOMAIN media
    /\ r.at \in {"identify", "save", "create", "record"} => r.id = None \/ Sufficient(r.id)

MediaFields == {"cand", "how", "credited", "key", "live", "blind"}
IsAttachment(x) == x = [f \in MediaFields |-> x[f]]
RowFields == {"media", "meta", "due"}
IsRow(x) == x = [f \in RowFields |-> x[f]]

\* The tables are what their names say, whatever the values in them.
Tables ==
    /\ \E S : media \in Seq(S)
    /\ \A m \in DOMAIN media : IsAttachment(media[m])
    /\ row = [a \in Articles |-> row[a]] /\ \A a \in Articles : IsRow(row[a])
    /\ post = [a \in Articles |-> post[a]]

\* Keyed attachments suffice, and so does what an article has saved or shows.
KeyedSuffice == \A m \in DOMAIN media : media[m].key \in Articles => Sufficient(m)
SavedSuffice == \A a \in Articles : row[a].media = None \/ Sufficient(row[a].media)
ShownSuffice == \A a \in Articles : post[a] = None \/ Sufficient(post[a])

MediaInv == /\ Tables /\ RunHolds(run)
            /\ KeyedSuffice /\ SavedSuffice /\ ShownSuffice /\ OneKeyedMedia

\* A step of the run alone that leaves it as it has to be.
LEMMA RunMoves ==
    ASSUME MediaInv, NEW r, RunHolds(r), Goes(r)
    PROVE  MediaInv'
  <1>1. /\ media' = media /\ row' = row /\ post' = post /\ run' = r
    BY DEF Goes
  <1> QED
    BY <1>1 DEF MediaInv, Tables, RunHolds, Keyed, KeyedSuffice, SavedSuffice, ShownSuffice,
                Sufficient, OneKeyedMedia

\* As long as the search lasts, nothing is asked of the run but its article.
LEMMA SearchHolds ==
    ASSUME MediaInv, run.at \in Choosing \cup {"credit", "identify"},
           NEW r, IsRun(r), r.on = run.on, r.at \in Choosing
    PROVE  RunHolds(r)
  BY DEF MediaInv, RunHolds, Choosing

\* A run that ends or goes on without an image.
LEMMA EndHolds == RunHolds(IdleRun)
  BY DEF RunHolds, IsRun, RunFields, IdleRun, Choosing
LEMMA WithHolds ==
    ASSUME NEW r, r.on \in Articles, NEW id, NEW cand, id = None \/ Sufficient(id)
    PROVE  RunHolds(With(r, id, cand))
  <1>1. LET w == With(r, id, cand)
        IN  w.on = r.on /\ w.at = "create" /\ w.id = id
    BY DEF With, IdleRun
  <1>2. IsRun(With(r, id, cand))
    BY DEF With, IdleRun, IsRun, RunFields
  <1> QED
    BY <1>1, <1>2 DEF RunHolds, Choosing
LEMMA ImagelessHolds ==
    ASSUME NEW r, r.on \in Articles
    PROVE  RunHolds(Imageless(r))
  <1>1. Imageless(r).on = r.on /\ Imageless(r).at = "create" /\ Imageless(r).id = None
    BY DEF Imageless, IdleRun
  <1>2. IsRun(Imageless(r))
    BY DEF Imageless, IdleRun, IsRun, RunFields
  <1> QED
    BY <1>1, <1>2 DEF RunHolds, Choosing

\* Changes of some fields leave a run a run of the same article.
LEMMA UploadsAlike ==
    ASSUME NEW r, IsRun(r), NEW cand, NEW how
    PROVE  LET q == Uploads(r, cand, how)
           IN  IsRun(q) /\ q.on = r.on /\ q.at = "upload"
  BY DEF IsRun, RunFields, Uploads
LEMMA FailingAlike ==
    ASSUME NEW r, IsRun(r), NEW C
    PROVE  LET q == Failing(r, C)
           IN  IsRun(q) /\ q.on = r.on /\ q.at = r.at
  BY DEF IsRun, RunFields, Failing
LEMMA AttemptedAlike ==
    ASSUME NEW r, IsRun(r), NEW c
    PROVE  LET q == Attempted(r, c)
           IN  IsRun(q) /\ q.on = r.on /\ q.at = r.at
  BY DEF IsRun, RunFields, Attempted

\* The steps that only search.
Searches == \/ TrySource \/ TryGenerator \/ TryNothing \/ TryStockV1
            \/ SearchAll \/ SearchPart
            \/ StrictDownloadFails \/ StrictDownload \/ StrictEnds
            \/ RescueDownloadFails \/ RescueDownload \/ RescueEnds

LEMMA SearchStep ==
    ASSUME MediaInv, Searches
    PROVE  MediaInv'
  <1> DEFINE Alright(r) == IsRun(r) /\ r.on = run.on /\ r.at \in Choosing
  <1>0. IsRun(run) /\ (run.at # "idle" => run.on \in Articles)
    BY DEF MediaInv, RunHolds
  <1>s. ASSUME NEW r, Alright(r), Goes(r), run.at \in Choosing
        PROVE  MediaInv'
    BY <1>s, SearchHolds, RunMoves
  <1>1. ASSUME TrySource \/ TryGenerator PROVE MediaInv'
    <2> DEFINE q == [run EXCEPT !.tries = Tail(@)]
    <2>1. run.at = "try" /\ (Goes(q) \/ \E how : Goes(Uploads(q, None, how)))
      BY <1>1 DEF TrySource, TryGenerator, Trying, Skips, Makes
    <2>2. Alright(q)
      BY <1>0, <2>1 DEF IsRun, RunFields, Choosing
    <2> HIDE DEF q
    <2>3. ASSUME NEW how PROVE Alright(Uploads(q, None, how))
      BY <2>2, UploadsAlike DEF Choosing
    <2> QED
      BY <1>s, <2>1, <2>2, <2>3 DEF Choosing
  <1>2. ASSUME TryNothing PROVE MediaInv'
    BY <1>0, <1>2, ImagelessHolds, RunMoves DEF TryNothing
  <1>3. ASSUME TryStockV1 PROVE MediaInv'
    <2>1. PICK blind \in BOOLEAN :
            LET left == V1Left(run, blind)
                read == [run EXCEPT !.blind = blind]
            IN  IF left = {} THEN Goes([run EXCEPT !.tries = Tail(@), !.tried = {}])
                ELSE \/ Goes(Uploads([read EXCEPT !.tries = <<>>], Min(left), "strict"))
                     \/ Goes([run EXCEPT !.tried = @ \cup {Min(left)}])
      BY <1>3 DEF TryStockV1
    <2> DEFINE left == V1Left(run, blind)
               q == [[run EXCEPT !.blind = blind] EXCEPT !.tries = <<>>]
    <2>2. run.at = "try"
      BY <1>3 DEF TryStockV1, Trying
    <2>3. Alright([run EXCEPT !.tries = Tail(@), !.tried = {}])
      BY <1>0, <2>2 DEF IsRun, RunFields, Choosing
    <2>4. Alright(q)
      BY <1>0, <2>2 DEF IsRun, RunFields, Choosing
    <2>5. Alright([run EXCEPT !.tried = @ \cup {Min(left)}])
      BY <1>0, <2>2 DEF IsRun, RunFields, Choosing
    <2> HIDE DEF q
    <2>6. Alright(Uploads(q, Min(left), "strict"))
      BY <2>4, UploadsAlike DEF Choosing
    <2>7. \/ Goes([run EXCEPT !.tries = Tail(@), !.tried = {}])
          \/ Goes(Uploads(q, Min(left), "strict"))
          \/ Goes([run EXCEPT !.tried = @ \cup {Min(left)}])
      BY <2>1 DEF q
    <2> HIDE DEF left, Alright
    <2> QED
      BY <1>s, <2>2, <2>3, <2>5, <2>6, <2>7 DEF Choosing
  <1>4. ASSUME SearchAll PROVE MediaInv'
    <2>1. PICK blind \in BOOLEAN :
            Goes([run EXCEPT !.at = "strict", !.tries = <<>>, !.blind = blind,
                             !.offered = Candidates])
      BY <1>4 DEF SearchAll
    <2>2. run.at = "try"
      BY <1>4 DEF SearchAll, Trying
    <2>3. Alright([run EXCEPT !.at = "strict", !.tries = <<>>, !.blind = blind,
                              !.offered = Candidates])
      BY <1>0 DEF IsRun, RunFields, Choosing
    <2> HIDE DEF Alright
    <2> QED
      BY <1>s, <2>1, <2>2, <2>3 DEF Choosing
  <1>5. ASSUME SearchPart PROVE MediaInv'
    <2>1. PICK part \in SUBSET Candidates :
            Goes([run EXCEPT !.at = "strict", !.tries = <<>>, !.blind = ~config.history,
                             !.offered = part, !.broken = TRUE])
      BY <1>5 DEF SearchPart
    <2>2. run.at = "try"
      BY <1>5 DEF SearchPart, Trying
    <2>3. Alright([run EXCEPT !.at = "strict", !.tries = <<>>, !.blind = ~config.history,
                              !.offered = part, !.broken = TRUE])
      BY <1>0 DEF IsRun, RunFields, Choosing
    <2> HIDE DEF Alright
    <2> QED
      BY <1>s, <2>1, <2>2, <2>3 DEF Choosing
  <1>6. ASSUME StrictDownloadFails PROVE MediaInv'
    <2> DEFINE c == NextStrict(run)
    <2>1. PICK broken \in {run.broken, TRUE} :
            Goes([Failing(run, {c}) EXCEPT !.tried = @ \cup {c}, !.broken = broken])
      BY <1>6 DEF StrictDownloadFails
    <2> DEFINE q == Failing(run, {c})
    <2>2. run.at = "strict" /\ Alright(q)
      BY <1>0, <1>6, FailingAlike DEF StrictDownloadFails, Choosing
    <2> HIDE DEF c, q
    <2>3. Alright([q EXCEPT !.tried = @ \cup {c}, !.broken = broken])
      BY <2>2 DEF IsRun, RunFields, Choosing
    <2> HIDE DEF Alright
    <2> QED
      BY <1>s, <2>1, <2>2, <2>3 DEF Choosing, q
  <1>7. ASSUME StrictDownload PROVE MediaInv'
    <2> DEFINE c == NextStrict(run)
               asset == Catalog[c].asset
               r == [run EXCEPT !.tried = @ \cup {c}, !.got = @ \cup {Catalog[c].url}]
               r1 == [r EXCEPT !.repeats = @ \cup {asset}, !.seen = @ \cup {c}]
               q2 == Failing(r, Group(c) \cap run.offered)
               r2 == [q2 EXCEPT !.repeats = @ \cup {asset}]
               r3 == Uploads(r, c, "strict")
               q4 == Failing(r, {c})
               r4 == [q4 EXCEPT !.seen = @ \cup {c}]
    <2>1. run.at = "strict" /\ (Goes(r1) \/ Goes(r2) \/ Goes(r3) \/ Goes(r4))
      BY <1>7 DEF StrictDownload
    <2> HIDE DEF c, asset
    <2>2. Alright(r)
      BY <1>0, <2>1 DEF IsRun, RunFields, Choosing
    <2> HIDE DEF r
    <2>3. Alright(r1)
      BY <2>2 DEF IsRun, RunFields
    <2>4. Alright(q2) /\ Alright(r3) /\ Alright(q4)
      BY <2>2, FailingAlike, UploadsAlike DEF Choosing
    <2> HIDE DEF q2, r3, q4
    <2>5. Alright(r2) /\ Alright(r4)
      BY <2>4 DEF IsRun, RunFields
    <2> HIDE DEF r1, r2, r4, Alright
    <2> QED
      BY <1>s, <2>1, <2>3, <2>4, <2>5 DEF Choosing
  <1>8. ASSUME StrictEnds PROVE MediaInv'
    <2> DEFINE q == [run EXCEPT !.at = "rescue", !.seen = {},
                                !.exhausted = ~run.broken /\ Plan(run) = {}]
    <2>1. run.at = "strict" /\ Goes(q)
      BY <1>8 DEF StrictEnds
    <2>2. Alright(q)
      BY <1>0 DEF IsRun, RunFields, Choosing
    <2> HIDE DEF q, Alright
    <2> QED
      BY <1>s, <2>1, <2>2 DEF Choosing
  <1>9. ASSUME RescueDownloadFails PROVE MediaInv'
    <2> DEFINE c == NextRescue(run)
               r == Attempted(run, c)
               q == Failing(r, {c})
    <2>1. run.at = "rescue" /\ Goes(q)
      BY <1>9 DEF RescueDownloadFails
    <2>2. Alright(r)
      BY <1>0, <2>1, AttemptedAlike DEF Choosing
    <2> HIDE DEF c, r
    <2>3. Alright(q)
      BY <2>2, FailingAlike
    <2> HIDE DEF q, Alright
    <2> QED
      BY <1>s, <2>1, <2>3 DEF Choosing
  <1>10. ASSUME RescueDownload PROVE MediaInv'
    <2> DEFINE c == NextRescue(run)
               worn == ContentUsed(Catalog[c].content)
               back == [run EXCEPT !.count = @ + 1, !.got = @ \cup {Catalog[c].url},
                                   !.repeats = IF worn THEN @ \cup {Catalog[c].asset} ELSE @]
               r == [back EXCEPT !.done = @ \cup {c}]
               r1 == Uploads(r, c, "rescue")
               r2 == Failing(r, {c})
    <2>1. run.at = "rescue" /\ (Goes(back) \/ Goes(r1) \/ Goes(r2))
      BY <1>10 DEF RescueDownload
    <2> HIDE DEF c, worn
    <2>2. Alright(back)
      BY <1>0, <2>1 DEF IsRun, RunFields, Choosing
    <2> HIDE DEF back
    <2>3. Alright(r)
      BY <2>2 DEF IsRun, RunFields
    <2> HIDE DEF r
    <2>4. Alright(r1) /\ Alright(r2)
      BY <2>3, FailingAlike, UploadsAlike DEF Choosing
    <2> HIDE DEF r1, r2, Alright
    <2> QED
      BY <1>s, <2>1, <2>2, <2>4 DEF Choosing
  <1>11. ASSUME RescueEnds PROVE MediaInv'
    <2> DEFINE q == [run EXCEPT !.at = "try", !.tries = RouteAfter(run)]
    <2>1. run.at = "rescue" /\ Goes(q)
      BY <1>11 DEF RescueEnds
    <2>2. Alright(q)
      BY <1>0 DEF IsRun, RunFields, Choosing
    <2> HIDE DEF q, Alright
    <2> QED
      BY <1>s, <2>1, <2>2 DEF Choosing
  <1> HIDE DEF Alright
  <1> QED
    BY <1>1, <1>2, <1>3, <1>4, <1>5, <1>6, <1>7, <1>8, <1>9, <1>10, <1>11 DEF Searches

\* Sequences of any elements with one more, or with another in one place.
LEMMA Longer ==
    ASSUME NEW s, \E S : s \in Seq(S), NEW x, NEW t, t = Append(s, x)
    PROVE  /\ \E S : t \in Seq(S)
           /\ Len(s) \in Nat /\ DOMAIN s = 1..Len(s) /\ DOMAIN t = 1..(Len(s) + 1)
           /\ \A m \in DOMAIN s : t[m] = s[m]
           /\ t[Len(s) + 1] = x
  <1>1. PICK S : s \in Seq(S)
    OBVIOUS
  <1>2. s \in Seq(S \cup {x}) /\ x \in S \cup {x}
    BY <1>1, SeqMonotonic
  <1> QED
    BY <1>2, AppendProperties, LenProperties

LEMMA Changed ==
    ASSUME NEW s, \E S : s \in Seq(S), NEW i \in DOMAIN s, NEW x,
           NEW t, t = [s EXCEPT ![i] = x]
    PROVE  /\ \E S : t \in Seq(S)
           /\ DOMAIN t = DOMAIN s
           /\ \A m \in DOMAIN s : t[m] = IF m = i THEN x ELSE s[m]
  <1>1. PICK S : s \in Seq(S)
    OBVIOUS
  <1>2. s \in Seq(S \cup {x}) /\ x \in S \cup {x} /\ i \in 1..Len(s)
    BY <1>1, SeqMonotonic, LenProperties
  <1> QED
    BY <1>2, ExceptSeq, LenProperties

\* The invariant without the run, and articles that had no keyed attachment
\* still have none.
Rest == Tables /\ KeyedSuffice /\ SavedSuffice /\ ShownSuffice /\ OneKeyedMedia

LEMMA AppendStep ==
    ASSUME MediaInv, NEW x, IsAttachment(x), x.key = NoArticle,
           media' = Append(media, x), row' = row, post' = post
    PROVE  /\ Rest'
           /\ \A a \in Articles : Keyed(a) = {} => Keyed(a)' = {}
           /\ DOMAIN media \subseteq DOMAIN media' /\ Len(media) + 1 \in DOMAIN media'
           /\ media'[Len(media) + 1] = x
  <1>1. /\ \E S : media' \in Seq(S)
        /\ Len(media) \in Nat /\ DOMAIN media = 1..Len(media)
        /\ DOMAIN media' = 1..(Len(media) + 1)
        /\ \A m \in DOMAIN media : media'[m] = media[m]
        /\ media'[Len(media) + 1] = x
    BY Longer DEF MediaInv, Tables
  <1>2. ASSUME NEW m \in DOMAIN media' PROVE m \in DOMAIN media \/ media'[m] = x
    BY <1>1
  <1>3. DOMAIN media \subseteq DOMAIN media' /\ Len(media) + 1 \in DOMAIN media'
    BY <1>1
  <1>4. Tables'
    BY <1>1, <1>2 DEF MediaInv, Tables
  <1>5. \A m : Sufficient(m) => Sufficient(m)'
    BY <1>1, <1>3 DEF Sufficient
  <1>6. KeyedSuffice' /\ SavedSuffice' /\ ShownSuffice'
    BY <1>1, <1>2, <1>5, BatchAssumption
       DEF MediaInv, KeyedSuffice, SavedSuffice, ShownSuffice
  <1>7. OneKeyedMedia'
    BY <1>1, <1>2, BatchAssumption DEF MediaInv, OneKeyedMedia
  <1>8. ASSUME NEW a \in Articles, Keyed(a) = {} PROVE Keyed(a)' = {}
    BY <1>1, <1>2, <1>8, BatchAssumption DEF Keyed
  <1> QED
    BY <1>1, <1>3, <1>4, <1>6, <1>7, <1>8 DEF Rest

\* One attachment changes: it keeps its image, does not lose its credit, comes
\* to life no more, and takes only the key of an article that has none.
LEMMA ChangeStep ==
    ASSUME MediaInv, NEW i \in DOMAIN media, NEW x, IsAttachment(x),
           x.cand = media[i].cand, Sufficient(i) => x.cand = None \/ x.credited,
           x.live => media[i].live,
           \/ x.key = media[i].key
           \/ Sufficient(i) /\ Keyed(x.key) = {},
           media' = [media EXCEPT ![i] = x], row' = row, post' = post
    PROVE  /\ Rest'
           /\ \A a : Keyed(a) = {} => (a = x.key /\ x.live /\ x.key # media[i].key) \/ Keyed(a)' = {}
           /\ \A m : Sufficient(m) => Sufficient(m)'
           /\ DOMAIN media' = DOMAIN media /\ media'[i] = x
  <1>1. /\ \E S : media' \in Seq(S)
        /\ DOMAIN media' = DOMAIN media
        /\ \A m \in DOMAIN media : media'[m] = IF m = i THEN x ELSE media[m]
    BY Changed DEF MediaInv, Tables
  <1>2. Tables'
    BY <1>1 DEF MediaInv, Tables
  <1>3. \A m : Sufficient(m) => Sufficient(m)'
    BY <1>1 DEF Sufficient
  <1>4. KeyedSuffice' /\ SavedSuffice' /\ ShownSuffice'
    BY <1>1, <1>3 DEF MediaInv, KeyedSuffice, SavedSuffice, ShownSuffice
  <1>5. OneKeyedMedia'
    BY <1>1 DEF MediaInv, OneKeyedMedia, Keyed
  <1>6. ASSUME NEW a, Keyed(a) = {}
        PROVE  (a = x.key /\ x.live /\ x.key # media[i].key) \/ Keyed(a)' = {}
    BY <1>1, <1>6 DEF Keyed
  <1> QED
    BY <1>1, <1>2, <1>3, <1>4, <1>5, <1>6 DEF Rest

LEMMA RefusedAlike ==
    ASSUME NEW r, IsRun(r)
    PROVE  LET q == Refused(r)
           IN  IsRun(q) /\ q.on = r.on /\ q.at \in Choosing
  <1>1. CASE StockRoute /\ r.how \in {"strict", "rescue"}
    <2> DEFINE f == Failing(r, {r.cand})
    <2>1. Refused(r) = [f EXCEPT !.at = r.how, !.cand = None, !.id = None]
      BY <1>1 DEF Refused
    <2>2. IsRun(f) /\ f.on = r.on
      BY FailingAlike
    <2> HIDE DEF f
    <2> QED
      BY <1>1, <2>1, <2>2 DEF IsRun, RunFields, Choosing
  <1>2. CASE /\ ~(StockRoute /\ r.how \in {"strict", "rescue"})
             /\ r.how = "source" /\ r.tries # <<>> /\ Head(r.tries) = "search"
    <2>1. Refused(r) = [r EXCEPT !.at = "try", !.cand = None, !.id = None]
      BY <1>2 DEF Refused
    <2> QED
      BY <2>1 DEF IsRun, RunFields, Choosing
  <1>3. CASE /\ ~(StockRoute /\ r.how \in {"strict", "rescue"})
             /\ ~(r.how = "source" /\ r.tries # <<>> /\ Head(r.tries) = "search")
    <2>1. Refused(r) = [r EXCEPT !.at = "try", !.tries = <<>>, !.cand = None, !.id = None]
      BY <1>3 DEF Refused
    <2> QED
      BY <2>1 DEF IsRun, RunFields, Choosing
  <1> QED
    BY <1>1, <1>2, <1>3

\* An article found again by its key has an attachment of that key.
LEMMA FoundIsKeyed ==
    ASSUME MediaInv, NEW a \in Articles, Keyed(a) # {}
    PROVE  Min(Keyed(a)) \in Keyed(a)
  <1>1. PICK S : media \in Seq(S)
    BY DEF MediaInv, Tables
  <1>2. Len(media) \in Nat /\ DOMAIN media = 1..Len(media)
    BY <1>1, LenProperties
  <1>3. Keyed(a) \subseteq 1..Len(media) /\ OneKeyedMedia
    BY <1>2 DEF Keyed, MediaInv
  <1>4. PICK m \in Keyed(a) : TRUE
    OBVIOUS
  <1>5. Keyed(a) = {m}
    BY <1>3, <1>4 DEF Keyed, OneKeyedMedia
  <1>6. m <= m
    BY <1>2, <1>3, <1>4
  <1> QED
    BY <1>5, <1>6 DEF Min

LEMMA MediaStep ==
    ASSUME MediaInv, MediaNext
    PROVE  MediaInv'
  <1>0. /\ IsRun(run) /\ (run.at # "idle" => run.on \in Articles)
        /\ run.at \in Choosing \cup {"credit", "identify"} => Keyed(run.on) = {}
        /\ Rest
    BY DEF MediaInv, RunHolds, Rest
  <1>d. run.at = "identify" => run.id \in DOMAIN media /\ (run.id = None \/ Sufficient(run.id))
    <2>1. RunHolds(run)
      BY DEF MediaInv
    <2>2. run.at = "identify" => run.id \in DOMAIN media
      BY <2>1 DEF RunHolds
    <2>3. run.at \in {"identify", "save", "create", "record"} => run.id = None \/ Sufficient(run.id)
      BY <2>1 DEF RunHolds
    <2> QED
      BY <2>2, <2>3
  <1>n. None \notin DOMAIN media
    BY LenProperties DEF MediaInv, Tables, None
  <1>a. ASSUME Rest', RunHolds(run)' PROVE MediaInv'
    BY <1>a DEF MediaInv, Rest
  <1>i. RunHolds(IdleRun)'
    BY DEF RunHolds, IsRun, RunFields, IdleRun, Choosing
  <1>1. ASSUME NEW a \in Articles, Take(a) PROVE MediaInv'
    <2> DEFINE q == [IdleRun EXCEPT !.on = a, !.at = "prepare"]
    <2>1. Goes(q)
      BY <1>1 DEF Take
    <2>2. IsRun(q) /\ q.on = a /\ q.at = "prepare"
      BY DEF IdleRun, IsRun, RunFields
    <2> HIDE DEF q
    <2> QED
      BY <2>1, <2>2, RunMoves DEF RunHolds, Choosing
  <1>2. ASSUME ReuseSaved PROVE MediaInv'
    <2>1. Saved = None \/ Sufficient(Saved)
      BY <1>0, <1>2 DEF ReuseSaved, Saved, Rest, SavedSuffice
    <2> QED
      BY <1>0, <1>2, <2>1, WithHolds, RunMoves DEF ReuseSaved
  <1>3. ASSUME ClearStale PROVE MediaInv'
    <2>1. /\ row' = [row EXCEPT ![run.on].media = None, ![run.on].meta = None]
          /\ media' = media /\ post' = post /\ run' = run
      BY <1>3 DEF ClearStale
    <2>2. /\ row' = [a \in Articles |-> row'[a]]
          /\ \A a \in Articles : IsRow(row'[a]) /\ (row'[a].media = row[a].media \/ row'[a].media = None)
      BY <1>0, <2>1 DEF Rest, Tables, IsRow, RowFields
    <2> QED
      BY <2>1, <2>2 DEF MediaInv, Tables, RunHolds, Keyed, KeyedSuffice, SavedSuffice,
                        ShownSuffice, Sufficient, OneKeyedMedia
  <1>4. ASSUME FindKeyed PROVE MediaInv'
    <2> DEFINE i == Min(Keyed(run.on))
    <2>1. /\ row' = [row EXCEPT ![run.on].media = i, ![run.on].meta = None]
          /\ media' = media /\ post' = post /\ run' = With(run, i, None)
          /\ run.on \in Articles
      BY <1>0, <1>4 DEF FindKeyed
    <2>2. Sufficient(i)
      BY <1>0, <1>4, <2>1, FoundIsKeyed DEF FindKeyed, Rest, KeyedSuffice, Keyed
    <2> HIDE DEF i
    <2>3. /\ row' = [a \in Articles |-> row'[a]]
          /\ \A a \in Articles : IsRow(row'[a]) /\ (row'[a].media = row[a].media \/ row'[a].media = i)
      BY <1>0, <2>1 DEF Rest, Tables, IsRow, RowFields
    <2>4. RunHolds(With(run, i, None))
      BY <2>1, <2>2, WithHolds
    <2> QED
      BY <2>1, <2>2, <2>3, <2>4 DEF MediaInv, Tables, RunHolds, Keyed, KeyedSuffice,
                        SavedSuffice, ShownSuffice, Sufficient, OneKeyedMedia
  <1>5. ASSUME ChooseRoute PROVE MediaInv'
    <2> DEFINE q == [run EXCEPT !.at = "try", !.tries = Route]
    <2>1. Goes(q) /\ run.on \in Articles /\ Keyed(run.on) = {}
      BY <1>0, <1>5 DEF ChooseRoute
    <2>2. IsRun(q) /\ q.on = run.on /\ q.at = "try"
      BY <1>0 DEF IsRun, RunFields
    <2> HIDE DEF q
    <2> QED
      BY <2>1, <2>2, RunMoves DEF RunHolds, Choosing
  <1>6. ASSUME Searches PROVE MediaInv'
    BY <1>6, SearchStep
  <1>x. IsAttachment(Attachment(run)) /\ Attachment(run).key = NoArticle
        /\ Attachment(run).cand = run.cand
    BY DEF IsAttachment, MediaFields, Attachment
  <1>7. ASSUME Upload PROVE MediaInv'
    <2> DEFINE q == [run EXCEPT !.at = "credit", !.id = Len(media) + 1]
    <2>1. /\ media' = Append(media, Attachment(run)) /\ row' = row /\ post' = post
          /\ run' = q /\ run.at = "upload"
      BY <1>7 DEF Upload
    <2>2. IsRun(q) /\ q.on = run.on /\ q.at = "credit" /\ q.id = Len(media) + 1
          /\ q.cand = run.cand
      BY <1>0 DEF IsRun, RunFields
    <2> HIDE DEF q
    <2>3. /\ Rest' /\ Keyed(run.on)' = {}
      <3>1. run.on \in Articles /\ Keyed(run.on) = {}
        BY <1>0, <2>1 DEF Choosing
      <3>2. Rest' /\ \A a \in Articles : Keyed(a) = {} => Keyed(a)' = {}
        BY <1>x, <2>1, AppendStep
      <3> QED
        BY <2>1, <2>2, <3>1, <3>2
    <2>4. Len(media) + 1 \in DOMAIN media' /\ media'[Len(media) + 1] = Attachment(run)
      BY <1>x, <2>1, AppendStep
    <2>5. RunHolds(run)'
      BY <1>0, <1>x, <2>1, <2>2, <2>3, <2>4 DEF RunHolds, Choosing
    <2> QED
      BY <1>a, <2>3, <2>5
  <1>8. ASSUME UploadFails PROVE MediaInv'
    <2>1. /\ media' = media \/ media' = Append(media, Attachment(run))
          /\ row' = row /\ post' = post /\ run' = Refused(run) /\ run.at = "upload"
      BY <1>8 DEF UploadFails
    <2>2. IsRun(run') /\ run'.on = run.on /\ run'.at \in Choosing
      BY <1>0, <2>1, RefusedAlike
    <2>3. CASE media' = media
      BY <1>0, <2>1, <2>2, <2>3 DEF MediaInv, Tables, RunHolds, Choosing, Keyed, KeyedSuffice,
                  SavedSuffice, ShownSuffice, Sufficient, OneKeyedMedia
    <2>4. CASE media' = Append(media, Attachment(run))
      <3>1. run.on \in Articles /\ Keyed(run.on) = {}
        BY <1>0, <2>1 DEF Choosing
      <3>2. Rest' /\ \A a \in Articles : Keyed(a) = {} => Keyed(a)' = {}
        BY <1>x, <2>1, <2>4, AppendStep
      <3>3. RunHolds(run)'
        BY <2>2, <3>1, <3>2 DEF RunHolds, Choosing
      <3> QED
        BY <1>a, <3>2, <3>3
    <2> QED
      BY <2>1, <2>3, <2>4
  <1>9. ASSUME Credit PROVE MediaInv'
    <2> DEFINE x == [media[run.id] EXCEPT !.credited = (run.cand # None)]
               q == [run EXCEPT !.at = "identify"]
    <2>1. /\ media' = [media EXCEPT ![run.id] = x] /\ row' = row /\ post' = post
          /\ run' = q /\ run.at = "credit"
      BY <1>9 DEF Credit
    <2>2. run.id \in DOMAIN media /\ media[run.id].cand = run.cand
          /\ IsAttachment(media[run.id])
      BY <2>1 DEF MediaInv, RunHolds, Tables
    <2>3. /\ IsAttachment(x) /\ x.cand = run.cand /\ x.credited = (run.cand # None)
          /\ x.key = media[run.id].key /\ x.live = media[run.id].live
      BY <2>2 DEF IsAttachment, MediaFields
    <2>4. IsRun(q) /\ q.on = run.on /\ q.at = "identify" /\ q.id = run.id
      BY <1>0 DEF IsRun, RunFields
    <2> HIDE DEF x, q
    <2>8. x.cand = media[run.id].cand /\ (x.cand = None \/ x.credited)
      BY <2>2, <2>3
    <2>5. /\ Rest' /\ \A a : Keyed(a) = {} => Keyed(a)' = {}
          /\ DOMAIN media' = DOMAIN media /\ media'[run.id] = x
      BY <2>1, <2>2, <2>3, <2>8, ChangeStep
    <2>6. Sufficient(run.id)'
      <3>1. run.id \in DOMAIN media' /\ (media'[run.id].cand # None => media'[run.id].credited)
        BY <2>2, <2>3, <2>5
      <3> QED
        BY <2>1, <2>4, <3>1 DEF Sufficient
    <2>7. RunHolds(run)'
      BY <1>0, <2>1, <2>2, <2>4, <2>5, <2>6 DEF RunHolds, Choosing
    <2> QED
      BY <1>a, <2>5, <2>7
  <1>10. ASSUME CreditFails PROVE MediaInv'
    <2>1. run.at = "credit" /\ Goes(Refused(run))
      BY <1>10 DEF CreditFails
    <2> QED
      BY <1>0, <2>1, RefusedAlike, SearchHolds, RunMoves
  <1>11. ASSUME Identify PROVE MediaInv'
    <2> DEFINE x == [media[run.id] EXCEPT !.key = run.on]
               q == [run EXCEPT !.at = "save"]
    <2>1. /\ media' = [media EXCEPT ![run.id] = x] /\ row' = row /\ post' = post
          /\ run' = q /\ run.at = "identify"
      BY <1>11 DEF Identify
    <2>2. /\ run.id \in DOMAIN media /\ IsAttachment(media[run.id])
          /\ Sufficient(run.id) /\ Keyed(run.on) = {}
      <3>1. run.id \in DOMAIN media /\ (run.id = None \/ Sufficient(run.id))
        BY <1>d, <2>1
      <3>2. IsAttachment(media[run.id])
        BY <3>1 DEF MediaInv, Tables
      <3> QED
        BY <1>0, <1>n, <2>1, <3>1, <3>2
    <2>3. /\ IsAttachment(x) /\ x.cand = media[run.id].cand
          /\ x.credited = media[run.id].credited
          /\ x.key = run.on /\ x.live = media[run.id].live
      BY <2>2 DEF IsAttachment, MediaFields
    <2>4. IsRun(q) /\ q.on = run.on /\ q.at = "save" /\ q.id = run.id
      BY <1>0 DEF IsRun, RunFields
    <2> HIDE DEF x, q
    <2>5. Rest' /\ \A m : Sufficient(m) => Sufficient(m)'
      BY <2>1, <2>2, <2>3, ChangeStep DEF Sufficient
    <2>6. RunHolds(run)'
      BY <1>0, <2>1, <2>2, <2>4, <2>5 DEF RunHolds, Choosing
    <2> QED
      BY <1>a, <2>5, <2>6
  <1>12. ASSUME IdentifyFails PROVE MediaInv'
    <2> DEFINE q == [run EXCEPT !.at = "save", !.unkeyed = TRUE]
    <2>1. Goes(q) /\ run.at = "identify"
      BY <1>12 DEF IdentifyFails
    <2>2. IsRun(q) /\ q.on = run.on /\ q.at = "save" /\ q.id = run.id
      BY <1>0 DEF IsRun, RunFields
    <2> HIDE DEF q
    <2>3. RunHolds(q)
      BY <1>0, <2>1, <2>2 DEF MediaInv, RunHolds, Choosing
    <2> QED
      BY <2>1, <2>3, RunMoves
  <1>13. ASSUME Save PROVE MediaInv'
    <2>1. /\ row' = [row EXCEPT ![run.on].media = run.id, ![run.on].meta = run.cand]
          /\ media' = media /\ post' = post /\ run.at = "save"
          /\ run' = IF run.unkeyed THEN IdleRun ELSE With(run, run.id, run.cand)
      BY <1>13 DEF Save
    <2>2. run.on \in Articles /\ (run.id = None \/ Sufficient(run.id))
      BY <1>0, <2>1 DEF MediaInv, RunHolds
    <2>3. /\ row' = [a \in Articles |-> row'[a]]
          /\ \A a \in Articles : IsRow(row'[a])
                                 /\ (row'[a].media = row[a].media \/ row'[a].media = run.id)
      BY <1>0, <2>1, <2>2 DEF Rest, Tables, IsRow, RowFields
    <2>4. RunHolds(run')
      BY <2>1, <2>2, WithHolds, EndHolds
    <2>5. RunHolds(run)'
      BY <2>1, <2>4 DEF RunHolds, Keyed, Sufficient
    <2>6. Tables' /\ SavedSuffice'
      BY <1>0, <2>1, <2>2, <2>3 DEF Rest, Tables, SavedSuffice, Sufficient
    <2>7. KeyedSuffice' /\ ShownSuffice' /\ OneKeyedMedia'
      BY <1>0, <2>1 DEF Rest, KeyedSuffice, ShownSuffice, Sufficient, OneKeyedMedia
    <2> QED
      BY <1>a, <2>5, <2>6, <2>7 DEF Rest
  <1>14. ASSUME Create PROVE MediaInv'
    <2> DEFINE q == [run EXCEPT !.at = "record"]
    <2>1. /\ row' = [row EXCEPT ![run.on].due = FALSE]
          /\ post' = [post EXCEPT ![run.on] = run.id]
          /\ media' = media /\ run.at = "create"
          /\ run' = IF run.cand = None THEN IdleRun ELSE q
      BY <1>14 DEF Create
    <2>2. run.on \in Articles /\ (run.id = None \/ Sufficient(run.id))
      BY <1>0, <2>1 DEF MediaInv, RunHolds
    <2>3. /\ row' = [a \in Articles |-> row'[a]]
          /\ \A a \in Articles : IsRow(row'[a]) /\ row'[a].media = row[a].media
      BY <1>0, <2>1, <2>2 DEF Rest, Tables, IsRow, RowFields
    <2>4. /\ post' = [a \in Articles |-> post'[a]]
          /\ \A a \in Articles : post'[a] = post[a] \/ post'[a] = run.id
      BY <1>0, <2>1, <2>2 DEF Rest, Tables
    <2>5. IsRun(q) /\ q.on = run.on /\ q.at = "record" /\ q.id = run.id
      BY <1>0 DEF IsRun, RunFields
    <2> HIDE DEF q
    <2>6. RunHolds(run')
      BY <2>1, <2>2, <2>5, EndHolds DEF RunHolds, Choosing
    <2>7. RunHolds(run)'
      BY <2>1, <2>6 DEF RunHolds, Keyed, Sufficient
    <2>8. Tables' /\ KeyedSuffice' /\ OneKeyedMedia'
      BY <1>0, <2>1, <2>3, <2>4 DEF Rest, Tables, KeyedSuffice, Sufficient, OneKeyedMedia
    <2>9. SavedSuffice' /\ ShownSuffice'
      <3>1. \A m : Sufficient(m) => Sufficient(m)'
        BY <2>1 DEF Sufficient
      <3> QED
        BY <1>0, <2>2, <2>3, <2>4, <3>1 DEF Rest, SavedSuffice, ShownSuffice
    <2> QED
      BY <1>a, <2>7, <2>8, <2>9 DEF Rest
  <1>15. ASSUME Record PROVE MediaInv'
    <2>1. media' = media /\ row' = row /\ post' = post /\ run' = IdleRun
      BY <1>15 DEF Record
    <2> QED
      BY <1>0, <1>a, <1>i, <2>1 DEF Rest, Tables, Keyed, KeyedSuffice, SavedSuffice,
                        ShownSuffice, Sufficient, OneKeyedMedia
  <1>16. ASSUME Dies PROVE MediaInv'
    BY <1>16, EndHolds, RunMoves DEF Dies
  <1>17. ASSUME NEW m \in DOMAIN media, Trash(m) PROVE MediaInv'
    <2> DEFINE x == [media[m] EXCEPT !.live = FALSE]
    <2>1. /\ media' = [media EXCEPT ![m] = x] /\ row' = row /\ post' = post /\ run' = run
      BY <1>17 DEF Trash
    <2>2. IsAttachment(media[m])
      BY DEF MediaInv, Tables
    <2>3. /\ IsAttachment(x) /\ x.cand = media[m].cand /\ x.credited = media[m].credited
          /\ x.key = media[m].key /\ x.live = FALSE
      BY <2>2 DEF IsAttachment, MediaFields
    <2> HIDE DEF x
    <2>4. /\ Rest' /\ \A a : Keyed(a) = {} => Keyed(a)' = {}
          /\ \A n : Sufficient(n) => Sufficient(n)'
          /\ DOMAIN media' = DOMAIN media /\ media'[m] = x
      BY <2>1, <2>2, <2>3, ChangeStep DEF Sufficient
    <2>5. \A n \in DOMAIN media : media'[n].cand = media[n].cand
      BY <2>1, <2>3, Changed DEF MediaInv, Tables
    <2>6. RunHolds(run)'
      BY <2>1, <2>4, <2>5 DEF MediaInv, RunHolds
    <2> QED
      BY <1>a, <2>4, <2>6
  <1> QED
    BY <1>1, <1>2, <1>3, <1>4, <1>5, <1>6, <1>7, <1>8, <1>9, <1>10, <1>11, <1>12,
       <1>13, <1>14, <1>15, <1>16, <1>17 DEF MediaNext, Searches

LEMMA MediaInvariant == Spec => []MediaInv
  <1>1. Init => MediaInv
    <2> SUFFICES ASSUME Init PROVE MediaInv
      OBVIOUS
    <2>1. media = <<>> /\ run = IdleRun /\ post = [a \in Articles |-> None]
          /\ row = [a \in Articles |-> [media |-> None, meta |-> None, due |-> TRUE]]
      BY DEF Init, MediaInit
    <2>2. media \in Seq({}) /\ DOMAIN media = {}
      BY <2>1, EmptySeq, LenProperties
    <2>3. Tables
      <3>1. \A a \in Articles : IsRow(row[a])
        BY <2>1 DEF IsRow, RowFields
      <3>2. row = [a \in Articles |-> row[a]] /\ post = [a \in Articles |-> post[a]]
        BY <2>1
      <3> QED
        BY <2>2, <3>1, <3>2 DEF Tables
    <2> QED
      BY <2>1, <2>2, <2>3, EndHolds DEF MediaInv, KeyedSuffice, SavedSuffice, ShownSuffice,
                                       OneKeyedMedia
  <1>2. MediaInv /\ [Next]_vars => MediaInv'
    <2> SUFFICES ASSUME MediaInv, [Next]_vars PROVE MediaInv'
      OBVIOUS
    <2>1. CASE Publishes
      BY <2>1, MediaStep DEF Publishes
    <2>2. CASE UNCHANGED mediaVars
      BY <2>2 DEF mediaVars, MediaInv, Tables, RunHolds, Keyed, KeyedSuffice, SavedSuffice,
                  ShownSuffice, Sufficient, OneKeyedMedia
    <2> QED
      BY <2>1, <2>2 DEF Next, Writes, EndProcess, vars
  <1> QED
    BY <1>1, <1>2, PTL DEF Spec

\* However often an article is taken up again after crashes and failures, at most
\* one attachment outside the trash carries its key (_prepare_image).
THEOREM OneKeyed == Spec => []OneKeyedMedia
  BY MediaInvariant, PTL DEF MediaInv

\* A post never shows a stock image whose credit was not saved, on any route and
\* for any catalogue (_upload_prepared_image, _prepare_image).
THEOREM CreditShown == Spec => []CreditedMedia
  <1>1. MediaInv => CreditedMedia
    BY DEF MediaInv, ShownSuffice, Sufficient, CreditedMedia
  <1> QED
    BY <1>1, MediaInvariant, PTL

(* ------------------------ the order of candidates ---------------------- *)

\* Every set of numbers has a least one.
LEMMA LeastNatural ==
    ASSUME NEW S, S \subseteq Nat, S # {}
    PROVE  \E x \in S : \A y \in S : x <= y
  <1> DEFINE R == {p \in Nat \X Nat : p[1] < p[2]}
  <1>1. IsWellFoundedOn(R, Nat)
    BY NatLessThanWellFounded DEF OpToRel
  <1>2. \A x, y \in S : <<y, x>> \in R <=> y < x
    OBVIOUS
  <1> HIDE DEF R
  <1>3. PICK x \in S : \A y \in S : ~(<<y, x>> \in R)
    BY <1>1, WFMin
  <1>4. \A y \in S : ~(y < x)
    BY <1>2, <1>3
  <1> QED
    BY <1>4

\* So has every set of places in any order that compares all of them: the least
\* number up to which there were none would have to be wrong.
LEMMA LeastExists ==
    ASSUME NEW N \in Nat, NEW S, S \subseteq 1..N, S # {}, NEW R,
           \A c, d \in S : c # d => <<c, d>> \in R \/ <<d, c>> \in R,
           \A c, d, e \in S : <<c, d>> \in R /\ <<d, e>> \in R => <<c, e>> \in R
    PROVE  \E c \in S : \A d \in S \ {c} : <<c, d>> \in R
  <1> DEFINE Has(T) == \E c \in T : \A d \in T \ {c} : <<c, d>> \in R
             Upto(k) == {c \in S : c <= k}
             Bad == {k \in Nat : Upto(k) # {} /\ ~Has(Upto(k))}
  <1>0. \A c \in S : c \in Int /\ 1 <= c /\ c <= N
    OBVIOUS
  <1>1. S = Upto(N)
    BY <1>0
  <1>2. ASSUME Bad # {} PROVE FALSE
    <2>1. PICK k \in Bad : \A y \in Bad : k <= y
      <3>1. Bad \subseteq Nat
        OBVIOUS
      <3> HIDE DEF Bad
      <3> QED
        BY <1>2, <3>1, LeastNatural
    <2>2. k \in Nat /\ Upto(k) # {} /\ ~Has(Upto(k))
      BY <2>1
    <2> HIDE DEF Bad, Has
    <2>3. k # 0 /\ k \in Nat
      <3>1. k \in Nat /\ Upto(k) # {}
        BY <2>2
      <3>2. PICK c \in S : c <= k
        BY <3>1
      <3> QED
        BY <1>0, <3>1, <3>2
    <2>a. k - 1 \in Nat /\ ~(k <= k - 1) /\ \A c \in S : c <= k <=> c <= k - 1 \/ c = k
      BY <1>0, <2>3
    <2>4. Upto(k - 1) = {} \/ Has(Upto(k - 1))
      <3>1. k - 1 \notin Bad
        BY <2>1, <2>a
      <3> HIDE DEF Upto
      <3> QED
        BY <2>a, <3>1 DEF Bad
    <2>5. /\ Upto(k) \subseteq Upto(k - 1) \cup {k} /\ Upto(k - 1) \subseteq Upto(k)
          /\ k \notin Upto(k - 1) /\ Upto(k) \subseteq S /\ Upto(k - 1) \subseteq S
      BY <2>a
    <2> DEFINE P == Upto(k - 1)
               Q == Upto(k)
    <2>6. /\ Q \subseteq P \cup {k} /\ P \subseteq Q /\ k \notin P /\ P \subseteq S /\ Q \subseteq S
          /\ Q # {} /\ ~Has(Q) /\ (P = {} \/ Has(P))
      BY <2>2, <2>4, <2>5
    <2> HIDE DEF P, Q, Upto
    <2>b. k \notin Q => P = Q
      <3>1. Q \subseteq P \cup {k} /\ P \subseteq Q
        BY <2>6
      <3> QED
        BY <3>1
    <2> USE DEF Has
    <2>7. k \in Q /\ k \in S
      <3>1. CASE k \notin Q
        BY <2>6, <2>b, <3>1
      <3> QED
        BY <2>6, <3>1
    <2>8. Q = P \cup {k}
      BY <2>6, <2>7
    <2>9. CASE P = {}
      BY <2>6, <2>8, <2>9
    <2>10. CASE Has(P)
      <3>1. PICK c \in P : \A d \in P \ {c} : <<c, d>> \in R
        BY <2>10
      <3>2. c \in S /\ c # k
        BY <2>6
      <3>3. CASE <<c, k>> \in R
        BY <2>6, <2>8, <3>1, <3>3
      <3>4. CASE <<k, c>> \in R
        <4>1. \A d \in P : <<k, d>> \in R
          BY <2>6, <2>7, <3>1, <3>4
        <4> QED
          BY <2>6, <2>8, <4>1
      <3> QED
        BY <2>7, <3>2, <3>3, <3>4
    <2> QED
      BY <2>6, <2>9, <2>10
  <1>3. Upto(N) # {}
    BY <1>1
  <1>4. Has(Upto(N))
    <2> HIDE DEF Has, Upto
    <2> QED
      BY <1>2, <1>3
  <1> QED
    BY <1>1, <1>4

LEMMA MinIsThere ==
    ASSUME NEW S, S \subseteq Candidates, S # {}
    PROVE  Min(S) \in S
  <1>1. S \subseteq Nat
    BY MediaAssumption
  <1>2. \E x \in S : \A y \in S : x <= y
    BY <1>1, LeastNatural
  <1> QED
    BY <1>2 DEF Min

\* The next strict candidate is one of the plan, the next of rescue one of the pool.
LEMMA NextStrictPlanned ==
    ASSUME NEW r, r.offered \subseteq Candidates, Plan(r) # {}
    PROVE  NextStrict(r) \in Plan(r) /\ NextStrict(r) \in Candidates
  <1>1. Plan(r) \subseteq Candidates
    BY DEF Plan
  <1> QED
    BY <1>1, MinIsThere DEF NextStrict

LEMMA NextRescuePooled ==
    ASSUME NEW r, r.offered \subseteq Candidates, Pool(r) # {}
    PROVE  NextRescue(r) \in Pool(r) /\ NextRescue(r) \in Candidates
  <1> DEFINE R == {p \in Candidates \X Candidates : Before(r, p[1], p[2])}
  <1>1. Pool(r) \subseteq Candidates /\ Candidates = 1..Len(Catalog) /\ Len(Catalog) \in Nat
    BY MediaAssumption DEF Pool
  <1>2. \A c, d \in Pool(r) : <<c, d>> \in R <=> Before(r, c, d)
    BY <1>1
  <1>3. \A c : Tier(r, c) \in 0..4
    <2> TAKE c
    <2> DEFINE s == Soft(r, c)
    <2>1. Tier(r, c) = CASE s = {} -> 0 [] "content" \in s -> 4 [] s = {"below"} -> 1
                         [] s = {"recent"} -> 2 [] OTHER -> 3
      BY DEF Tier
    <2> HIDE DEF s
    <2> QED
      BY <2>1
  <1>4. \A c \in Pool(r) : c \in Int /\ Tier(r, c) \in Int /\ Catalog[c].score \in Int
    BY <1>1, <1>3, MediaAssumption
  <1>5. \A c, d \in Pool(r) : c # d => Before(r, c, d) \/ Before(r, d, c)
    BY <1>4 DEF Before
  <1>6. \A c, d, e \in Pool(r) : Before(r, c, d) /\ Before(r, d, e) => Before(r, c, e)
    BY <1>4 DEF Before
  <1> HIDE DEF R
  <1>7. \E c \in Pool(r) : \A d \in Pool(r) \ {c} : <<c, d>> \in R
    <2>1. /\ \A c, d \in Pool(r) : c # d => <<c, d>> \in R \/ <<d, c>> \in R
          /\ \A c, d, e \in Pool(r) : <<c, d>> \in R /\ <<d, e>> \in R => <<c, e>> \in R
      BY <1>2, <1>5, <1>6
    <2> QED
      BY <1>1, <2>1, LeastExists
  <1>8. \E c \in Pool(r) : \A d \in Pool(r) \ {c} : Before(r, c, d)
    BY <1>2, <1>7
  <1> QED
    BY <1>1, <1>8 DEF NextRescue

(* ------------------------- which image is chosen ----------------------- *)

\* What the V2 stock route tries before its search, and what after the rescue.
Openings == {<<>>, <<"search">>, <<"source", "search">>}
Lasts == {"grok", "openai", "source"}
V2Tries == {"source", "search", "grok", "openai"}

RescueSpent(r) == \/ r.count >= RescueLimit
                  \/ \A c \in r.offered : Catalog[c].safe => Catalog[c].url \in r.failed

\* The candidate a run has at hand, whose outcome is open.
AtHand(r, c) == /\ c = r.cand /\ r.how \in {"strict", "rescue"}
                /\ r.at \in {"upload", "credit", "identify", "save"}

\* The fields of a run have their types.
RunTyped(r) ==
    /\ IsRun(r)
    /\ r.on \in Articles \cup {NoArticle} /\ r.at \in Steps
    /\ r.tried \subseteq Candidates /\ r.offered \subseteq Candidates
    /\ r.done \subseteq Candidates /\ r.seen \subseteq Candidates
    /\ r.failed \subseteq Urls /\ r.got \subseteq Urls /\ r.repeats \subseteq Assets
    /\ r.count \in 0..RescueLimit /\ r.id \in 0..MaxMedia
    /\ r.blind \in BOOLEAN /\ r.how \in Hows
    /\ r.cand \in Candidates \cup {None}

\* A stock image is what was chosen as one, and only a stock image is recorded.
CandHolds(r) ==
    /\ (r.at \in {"upload", "credit"} /\ r.how \in {"strict", "rescue"}) => r.cand # None
    /\ r.at = "record" => r.cand # None

\* On the V2 stock route generators come only after the search, and with rescue
\* only when that is spent: every candidate tried or rescued has failed, is kept
\* for a later tier, or is at hand.
RouteHolds(r) ==
    /\ config.engine = "v2" => r.tries \in Seq(V2Tries)
    /\ StockRoute => /\ \/ r.tries \in Openings
                        \/ r.tries \in Seq(Lasts) /\ (config.rescue => RescueSpent(r))
                     /\ \A c \in r.tried : \/ Catalog[c].url \in r.failed
                                           \/ Catalog[c].asset \in r.repeats
                                           \/ AtHand(r, c)
                     /\ \A c \in r.done : Catalog[c].url \in r.failed \/ AtHand(r, c)

\* A strict candidate about to be uploaded is fresh; the attachment to be credited
\* is the last one.
FreshHolds(r) ==
    /\ r.at = "credit" => r.id = Len(media)
    /\ (r.at = "upload" /\ r.how = "strict") => /\ Fresh(r.cand, r.blind)
                                                /\ ~ContentUsed(Catalog[r.cand].content)

Fits(r) == RunTyped(r) /\ CandHolds(r) /\ RouteHolds(r) /\ FreshHolds(r)

Attachments == [cand : Candidates \cup {None}, how : Hows, credited : BOOLEAN,
                key : Articles \cup {NoArticle}, live : BOOLEAN, blind : BOOLEAN]
Rows == [media : 0..MaxMedia, meta : Candidates \cup {None}, due : BOOLEAN]
Uses == [asset : Assets, content : Contents \cup {NoContent}, upto : 0..MaxMedia]

MediaTyped == media \in Seq(Attachments) /\ Len(media) <= MaxMedia
TablesTyped ==
    /\ row \in [Articles -> Rows] /\ post \in [Articles -> 0..MaxMedia]
    /\ usage \subseteq Uses /\ (config.engine = "v1" => \A u \in usage : u.content = NoContent)
    /\ config \in Configs /\ faults \in 0..MaxFaults

ImageInv == MediaTyped /\ TablesTyped /\ Fits(run) /\ StrictIsFresh

LEMMA SequencesShorten ==
    ASSUME NEW S, NEW s \in Seq(S), s # <<>>
    PROVE  Head(s) \in S /\ Tail(s) \in Seq(S)
  BY HeadTailProperties

LEMMA NothingToTry == \A S : <<>> \in Seq(S)
  BY EmptySeq

\* A run that begins, ends or goes on with a found image.
LEMMA BareFits ==
    ASSUME NEW r, IsRun(r), r.on \in Articles \cup {NoArticle},
           r.at \in {"idle", "prepare", "create"},
           r.tries = <<>>, r.tried = {}, r.offered = {}, r.done = {}, r.seen = {},
           r.failed = {}, r.got = {}, r.repeats = {}, r.count = 0, r.blind = FALSE,
           r.how = "generated", r.id \in 0..MaxMedia, r.cand \in Candidates \cup {None}
    PROVE  Fits(r)
  <1>a. r.count \in 0..RescueLimit
    BY MediaAssumption
  <1>b. r.at \in Steps /\ r.how \in Hows
    BY DEF Steps, Hows
  <1>1. RunTyped(r)
    BY <1>a, <1>b DEF RunTyped
  <1>2. CandHolds(r) /\ FreshHolds(r)
    BY DEF CandHolds, FreshHolds
  <1>3. RouteHolds(r)
    BY NothingToTry DEF RouteHolds, Openings
  <1> QED
    BY <1>1, <1>2, <1>3 DEF Fits

LEMMA TakesFits ==
    ASSUME NEW a \in Articles
    PROVE  Fits([IdleRun EXCEPT !.on = a, !.at = "prepare"])
  <1> DEFINE q == [IdleRun EXCEPT !.on = a, !.at = "prepare"]
  <1>1. /\ IsRun(q) /\ q.on = a /\ q.at = "prepare" /\ q.tries = <<>> /\ q.tried = {}
        /\ q.offered = {} /\ q.done = {} /\ q.seen = {} /\ q.failed = {} /\ q.got = {}
        /\ q.repeats = {} /\ q.count = 0 /\ q.blind = FALSE /\ q.how = "generated"
        /\ q.id = 0 /\ q.cand = None
    BY DEF IdleRun, IsRun, RunFields, None
  <1> HIDE DEF q
  <1>2. /\ q.on \in Articles \cup {NoArticle} /\ q.id \in 0..MaxMedia
        /\ q.cand \in Candidates \cup {None} /\ q.at \in {"idle", "prepare", "create"}
    BY <1>1, MediaAssumption
  <1>3. Fits(q)
    BY <1>1, <1>2, BareFits
  <1> QED
    BY <1>3 DEF q

LEMMA IdleFits == Fits(IdleRun)
  <1> DEFINE q == IdleRun
  <1>1. /\ IsRun(q) /\ q.on = NoArticle /\ q.at = "idle" /\ q.tries = <<>> /\ q.tried = {}
        /\ q.offered = {} /\ q.done = {} /\ q.seen = {} /\ q.failed = {} /\ q.got = {}
        /\ q.repeats = {} /\ q.count = 0 /\ q.blind = FALSE /\ q.how = "generated"
        /\ q.id = 0 /\ q.cand = None
    BY DEF IdleRun, IsRun, RunFields, None
  <1> HIDE DEF q
  <1>2. 0 \in 0..MaxMedia
    BY MediaAssumption
  <1>3. Fits(q)
    BY <1>1, <1>2, BareFits
  <1> QED
    BY <1>3 DEF q

LEMMA WithFits ==
    ASSUME NEW r, r.on \in Articles \cup {NoArticle}, NEW id \in 0..MaxMedia,
           NEW cand \in Candidates \cup {None}
    PROVE  Fits(With(r, id, cand))
  <1> DEFINE q == With(r, id, cand)
  <1>a. /\ IsRun(q) /\ q.on = r.on /\ q.at = "create" /\ q.id = id /\ q.cand = cand
    BY DEF With, IdleRun, IsRun, RunFields
  <1>b. /\ q.tries = <<>> /\ q.tried = {} /\ q.offered = {} /\ q.done = {} /\ q.seen = {}
        /\ q.failed = {}
    BY DEF With, IdleRun
  <1>c. /\ q.got = {} /\ q.repeats = {} /\ q.count = 0 /\ q.blind = FALSE
        /\ q.how = "generated"
    BY DEF With, IdleRun
  <1> HIDE DEF q
  <1>2. Fits(q)
    BY <1>a, <1>b, <1>c, BareFits
  <1> QED
    BY <1>2 DEF q

LEMMA ImagelessFits ==
    ASSUME NEW r, r.on \in Articles \cup {NoArticle}
    PROVE  Fits(Imageless(r))
  <1> DEFINE q == Imageless(r)
  <1>a. /\ IsRun(q) /\ q.on = r.on /\ q.at = "create" /\ q.id = 0 /\ q.cand = None
    BY DEF Imageless, IdleRun, IsRun, RunFields, None
  <1>b. /\ q.tries = <<>> /\ q.tried = {} /\ q.offered = {} /\ q.done = {} /\ q.seen = {}
        /\ q.failed = {}
    BY DEF Imageless, IdleRun
  <1>c. /\ q.got = {} /\ q.repeats = {} /\ q.count = 0 /\ q.blind = FALSE
        /\ q.how = "generated"
    BY DEF Imageless, IdleRun
  <1> HIDE DEF q
  <1>2. 0 \in 0..MaxMedia
    BY MediaAssumption
  <1>3. Fits(q)
    BY <1>a, <1>b, <1>c, <1>2, BareFits
  <1> QED
    BY <1>3 DEF q

\* The routes are what RouteHolds says of them.
LEMMA WhenIsSequence ==
    ASSUME NEW S, NEW x \in S, NEW b
    PROVE  When(b, x) \in Seq(S)
  <1>1. <<>> \in Seq(S) /\ <<x>> \in Seq(S)
    BY NothingToTry
  <1> QED
    BY <1>1 DEF When

LEMMA JoinsToSequence ==
    ASSUME NEW S, NEW s \in Seq(S), NEW t \in Seq(S)
    PROVE  s \o t \in Seq(S)
  BY ConcatProperties

LEMMA TwoInARow ==
    ASSUME NEW x, NEW y
    PROVE  <<x>> \o <<y>> = <<x, y>>
  <1> DEFINE S == {x, y}
             s == <<x>> \o <<y>>
             t == <<x, y>>
  <1>1. <<x>> \in Seq(S) /\ <<y>> \in Seq(S) /\ t \in Seq(S)
    OBVIOUS
  <1>2. s \in Seq(S) /\ Len(s) = 2 /\ s[1] = x /\ s[2] = y
    BY <1>1, ConcatProperties
  <1>3. Len(t) = 2 /\ t[1] = x /\ t[2] = y
    OBVIOUS
  <1> HIDE DEF S, s, t
  <1>4. Len(s) = Len(t) /\ \A i \in 1..Len(s) : s[i] = t[i]
    BY <1>2, <1>3
  <1>5. s = t
    BY <1>1, <1>2, <1>4, SeqEqual
  <1> QED
    BY <1>5 DEF s, t

LEMMA RouteBegins ==
    ASSUME config \in Configs
    PROVE  /\ config.engine = "v2" => Route \in Seq(V2Tries)
           /\ StockRoute => Route \in Openings
  <1> DEFINE sourceFirst == When(config.priority = "source_first", "source")
             openai == When(config.fallback, "openai")
  <1>1. ASSUME StockRoute
        PROVE  Route \in Openings /\ Route \in Seq(V2Tries)
    <2>a. /\ config.mode \in {"hybrid", "stock"}
          /\ config.priority \in {"stock_first", "source_first"}
      BY <1>1 DEF StockRoute
    <2>1. Route = sourceFirst \o <<"search">>
      BY <1>1, <2>a DEF Route
    <2>2. CASE config.priority = "source_first"
      <3>1. sourceFirst = <<"source">>
        BY <2>2 DEF When
      <3>2. Route = <<"source", "search">>
        BY <2>1, <3>1, TwoInARow
      <3> QED
        BY <3>2 DEF Openings, V2Tries
    <2>3. CASE config.priority # "source_first"
      <3>1. sourceFirst = <<>>
        BY <2>3 DEF When
      <3>2. <<"search">> \in Seq(V2Tries)
        BY DEF V2Tries
      <3>3. Route = <<"search">>
        BY <2>1, <3>1, <3>2, ConcatEmptySeq
      <3> QED
        BY <3>2, <3>3 DEF Openings
    <2> QED
      BY <2>2, <2>3
  <1>2. ASSUME ~StockRoute, config.engine = "v2"
        PROVE  Route \in Seq(V2Tries)
    <2>0. /\ config.mode \in {"openai", "hybrid", "stock", "source"}
          /\ config.priority \in {"stock_first", "source_first", "openai_only", "grok_only"}
      BY MediaAssumption
    <2>1. openai \in Seq(V2Tries)
      BY WhenIsSequence DEF V2Tries
    <2>2. <<"openai">> \in Seq(V2Tries) /\ <<"grok">> \in Seq(V2Tries)
          /\ <<"source">> \in Seq(V2Tries)
      BY DEF V2Tries
    <2> HIDE DEF openai, sourceFirst
    <2>3. CASE config.mode = "openai" \/ config.priority = "openai_only"
      <3>1. Route = <<"openai">>
        BY <1>2, <2>0, <2>3 DEF Route, StockRoute
      <3> QED
        BY <2>2, <3>1
    <2>4. CASE config.mode # "openai" /\ config.priority = "grok_only"
      <3>1. Route = <<"grok">> \o openai
        BY <1>2, <2>4 DEF Route, openai
      <3> QED
        BY <2>1, <2>2, <3>1, JoinsToSequence
    <2>5. CASE config.mode # "openai" /\ config.priority \in {"stock_first", "source_first"}
      <3>1. config.mode = "source"
        BY <1>2, <2>0, <2>5 DEF StockRoute
      <3>2. Route = <<"source">> \o openai
        BY <1>2, <2>5, <3>1 DEF Route, openai
      <3> QED
        BY <2>1, <2>2, <3>2, JoinsToSequence
    <2> QED
      BY <2>0, <2>3, <2>4, <2>5
  <1> QED
    BY <1>1, <1>2

LEMMA RouteAfterEnds ==
    ASSUME config \in Configs, NEW r
    PROVE  RouteAfter(r) \in Seq(Lasts) /\ RouteAfter(r) \in Seq(V2Tries)
  <1>1. /\ "openai" \in Lasts /\ "source" \in Lasts /\ config.primary \in Lasts
    BY MediaAssumption DEF Lasts
  <1> DEFINE a == When(Allowed(r), config.primary)
             b == When(config.source /\ config.priority = "stock_first", "source")
             c == When(Allowed(r) /\ config.fallback /\ config.primary # "openai", "openai")
             d == When(Allowed(r) /\ config.fallback, "openai")
  <1>2. a \in Seq(Lasts) /\ b \in Seq(Lasts) /\ c \in Seq(Lasts) /\ d \in Seq(Lasts)
    BY <1>1, WhenIsSequence
  <1>3. <<"grok", "openai">> \in Seq(Lasts)
    BY DEF Lasts
  <1>4. RouteAfter(r) \in {<<"grok", "openai">>, d, a \o b \o c}
    BY DEF RouteAfter
  <1> HIDE DEF a, b, c, d
  <1>5. a \o b \o c \in Seq(Lasts)
    BY <1>2, JoinsToSequence
  <1>6. RouteAfter(r) \in Seq(Lasts)
    BY <1>2, <1>3, <1>4, <1>5
  <1>7. Lasts \subseteq V2Tries
    BY DEF Lasts, V2Tries
  <1> QED
    BY <1>6, <1>7, SeqMonotonic

\* A step of the run alone that leaves it as it has to be.
LEMMA FitsMoves ==
    ASSUME ImageInv, NEW r, Fits(r), Goes(r), faults' \in 0..MaxFaults
    PROVE  ImageInv'
  <1>1. /\ media' = media /\ row' = row /\ post' = post /\ run' = r
        /\ config' = config /\ usage' = usage
    BY DEF Goes
  <1>2. MediaTyped' /\ TablesTyped'
    BY <1>1 DEF ImageInv, MediaTyped, TablesTyped
  <1>3. StrictIsFresh'
    BY <1>1 DEF ImageInv, StrictIsFresh, Shows
  <1>4. RunTyped(run)' /\ CandHolds(run)' /\ RouteHolds(run)'
    <2>1. RunTyped(run)' /\ CandHolds(run)'
      BY <1>1 DEF Fits, RunTyped, CandHolds, IsRun
    <2>2. RouteHolds(run)'
      BY <1>1 DEF Fits, RouteHolds, StockRoute, RescueSpent, AtHand
    <2> QED
      BY <2>1, <2>2
  <1>5. FreshHolds(run)'
    BY <1>1 DEF Fits, FreshHolds, Fresh, UsedBefore, UsedHere, InWordPress, ContentUsed
  <1> QED
    BY <1>2, <1>3, <1>4, <1>5 DEF ImageInv, Fits

\* The search goes on: what the route holds stays, if every candidate taken up
\* fails, is put off or is at hand.
Settled(r, q, c) == \/ Catalog[c].url \in q.failed
                    \/ AtHand(q, c)
LEMMA RouteGoesOn ==
    ASSUME NEW r, RunTyped(r), RouteHolds(r), NEW q,
           \/ q.tries = <<>>
           \/ /\ q.offered = r.offered
              /\ q.tries = r.tries \/ (r.tries # <<>> /\ q.tries = Tail(r.tries)),
           q.count \in Int, r.count <= q.count,
           r.failed \subseteq q.failed, r.repeats \subseteq q.repeats,
           \A c \in q.tried : \/ c \in r.tried /\ (AtHand(r, c) => Settled(r, q, c))
                              \/ Settled(r, q, c) \/ Catalog[c].asset \in q.repeats,
           \A c \in q.done : \/ c \in r.done /\ (AtHand(r, c) => Settled(r, q, c))
                             \/ Settled(r, q, c)
    PROVE  RouteHolds(q)
  <1>1. config.engine = "v2" => q.tries \in Seq(V2Tries)
    <2> SUFFICES ASSUME config.engine = "v2" PROVE q.tries \in Seq(V2Tries)
      OBVIOUS
    <2>1. r.tries \in Seq(V2Tries)
      BY DEF RouteHolds
    <2> QED
      BY <2>1, NothingToTry, SequencesShorten
  <1>2. RescueSpent(r) /\ q.offered = r.offered => RescueSpent(q)
    <2>1. r.count \in Int /\ RescueLimit \in Int
      BY MediaAssumption DEF RunTyped
    <2> QED
      BY <2>1 DEF RescueSpent
  <1>3. ASSUME StockRoute
        PROVE  \/ q.tries \in Openings
               \/ q.tries \in Seq(Lasts) /\ (config.rescue => RescueSpent(q))
    <2>1. CASE q.tries = <<>>
      BY <2>1 DEF Openings
    <2>2. CASE q.offered = r.offered /\ q.tries = r.tries
      BY <1>2, <1>3, <2>2 DEF RouteHolds
    <2>3. CASE q.offered = r.offered /\ r.tries # <<>> /\ q.tries = Tail(r.tries)
      <3>1. CASE r.tries \in Openings
        <4>1. Tail(<<"search">>) = <<>> /\ Tail(<<"source", "search">>) = <<"search">>
          OBVIOUS
        <4> QED
          BY <2>3, <3>1, <4>1 DEF Openings
      <3>2. CASE r.tries \in Seq(Lasts) /\ (config.rescue => RescueSpent(r))
        BY <1>2, <2>3, <3>2, SequencesShorten
      <3> QED
        BY <1>3, <3>1, <3>2 DEF RouteHolds
    <2> QED
      BY <2>1, <2>2, <2>3
  <1>4. ASSUME StockRoute, NEW c \in q.tried
        PROVE  Catalog[c].url \in q.failed \/ Catalog[c].asset \in q.repeats \/ AtHand(q, c)
    BY <1>4 DEF RouteHolds, Settled
  <1>5. ASSUME StockRoute, NEW c \in q.done
        PROVE  Catalog[c].url \in q.failed \/ AtHand(q, c)
    BY <1>5 DEF RouteHolds, Settled
  <1> QED
    BY <1>1, <1>3, <1>4, <1>5 DEF RouteHolds

\* Outside of the fields F, run q agrees with run r.
Alike(r, q, F) == IsRun(q) /\ \A f \in RunFields \ F : q[f] = r[f]

LEMMA FailingFields ==
    ASSUME NEW r, IsRun(r), NEW C
    PROVE  /\ Alike(r, Failing(r, C), {"failed"})
           /\ Failing(r, C).failed = r.failed \cup UrlsOf(C)
  <1>1. IsRun(Failing(r, C)) /\ Failing(r, C).failed = r.failed \cup UrlsOf(C)
    BY DEF IsRun, RunFields, Failing
  <1>2. \A f \in RunFields \ {"failed"} : Failing(r, C)[f] = r[f]
    BY DEF IsRun, RunFields, Failing
  <1> QED
    BY <1>1, <1>2 DEF Alike

LEMMA UploadsFields ==
    ASSUME NEW r, IsRun(r), NEW cand, NEW how
    PROVE  LET q == Uploads(r, cand, how)
           IN  /\ Alike(r, q, {"at", "cand", "how"})
               /\ q.at = "upload" /\ q.cand = cand /\ q.how = how
  <1>1. LET q == Uploads(r, cand, how)
        IN  IsRun(q) /\ q.at = "upload" /\ q.cand = cand /\ q.how = how
    BY DEF IsRun, RunFields, Uploads
  <1>2. \A f \in RunFields \ {"at", "cand", "how"} : Uploads(r, cand, how)[f] = r[f]
    BY DEF IsRun, RunFields, Uploads
  <1> QED
    BY <1>1, <1>2 DEF Alike

LEMMA AttemptedFields ==
    ASSUME NEW r, IsRun(r), NEW c
    PROVE  /\ Alike(r, Attempted(r, c), {"count", "done"})
           /\ Attempted(r, c).count = r.count + 1 /\ Attempted(r, c).done = r.done \cup {c}
  <1>1. /\ IsRun(Attempted(r, c))
        /\ Attempted(r, c).count = r.count + 1 /\ Attempted(r, c).done = r.done \cup {c}
    BY DEF IsRun, RunFields, Attempted
  <1>2. \A f \in RunFields \ {"count", "done"} : Attempted(r, c)[f] = r[f]
    BY DEF IsRun, RunFields, Attempted
  <1> QED
    BY <1>1, <1>2 DEF Alike

\* Addresses of candidates are addresses.
LEMMA UrlsThere ==
    ASSUME NEW C, C \subseteq Candidates
    PROVE  UrlsOf(C) \subseteq Urls /\ \A c \in C : Catalog[c].url \in UrlsOf(C)
  BY DEF UrlsOf, Urls

\* Each step keeps the count of faults within its bound.
LEMMA FaultsStay ==
    ASSUME faults \in 0..MaxFaults, Fault \/ Sound
    PROVE  faults' \in 0..MaxFaults
  BY MediaAssumption DEF Fault, Sound

LEMMA TypedAlike ==
    ASSUME NEW r, RunTyped(r), NEW q, NEW F, Alike(r, q, F),
           "on" \notin F, "id" \notin F,
           "at" \in F => q.at \in Steps,
           "tried" \in F => q.tried \subseteq Candidates,
           "offered" \in F => q.offered \subseteq Candidates,
           "done" \in F => q.done \subseteq Candidates,
           "seen" \in F => q.seen \subseteq Candidates,
           "failed" \in F => q.failed \subseteq Urls,
           "got" \in F => q.got \subseteq Urls,
           "repeats" \in F => q.repeats \subseteq Assets,
           "count" \in F => q.count \in 0..RescueLimit,
           "blind" \in F => q.blind \in BOOLEAN,
           "how" \in F => q.how \in Hows,
           "cand" \in F => q.cand \in Candidates \cup {None}
    PROVE  RunTyped(q)
  <1>1. IsRun(q) /\ \A f \in RunFields : f \in F \/ q[f] = r[f]
    BY DEF Alike
  <1>2. \A f \in {"on", "at", "tried", "offered", "done", "seen", "failed", "got", "repeats",
                  "count", "id", "blind", "how", "cand"} : f \in RunFields
    BY DEF RunFields
  <1>3. /\ q.on = r.on /\ q.id = r.id /\ ("at" \in F \/ q.at = r.at)
        /\ "tried" \in F \/ q.tried = r.tried
        /\ "offered" \in F \/ q.offered = r.offered
        /\ "done" \in F \/ q.done = r.done
        /\ "seen" \in F \/ q.seen = r.seen
    BY <1>1, <1>2
  <1>4. /\ "failed" \in F \/ q.failed = r.failed
        /\ "got" \in F \/ q.got = r.got
        /\ "repeats" \in F \/ q.repeats = r.repeats
        /\ "count" \in F \/ q.count = r.count
        /\ "blind" \in F \/ q.blind = r.blind
        /\ "how" \in F \/ q.how = r.how
        /\ "cand" \in F \/ q.cand = r.cand
    BY <1>1, <1>2
  <1> QED
    BY <1>1, <1>3, <1>4 DEF RunTyped

\* A source or a generator passes, or its image is uploaded.
LEMMA TriesStep ==
    ASSUME ImageInv, TrySource \/ TryGenerator, faults' \in 0..MaxFaults
    PROVE  ImageInv'
  <1> DEFINE q == [run EXCEPT !.tries = Tail(@)]
  <1>1. /\ run.at = "try" /\ run.tries # <<>>
        /\ Goes(q) \/ \E how \in {"source", "generated"} : Goes(Uploads(q, None, how))
    BY DEF TrySource, TryGenerator, Trying, Skips, Makes
  <1>0. RunTyped(run) /\ RouteHolds(run) /\ CandHolds(run) /\ IsRun(run)
    BY DEF ImageInv, Fits, RunTyped
  <1>2. Alike(run, q, {"tries"}) /\ q.tries = Tail(run.tries)
    <2>1. IsRun(q) /\ q.tries = Tail(run.tries)
      BY <1>0 DEF IsRun, RunFields
    <2>2. \A f \in RunFields \ {"tries"} : q[f] = run[f]
      BY <1>0 DEF IsRun, RunFields
    <2> QED
      BY <2>1, <2>2 DEF Alike
  <1> HIDE DEF q
  <1>3. RunTyped(q)
    BY <1>0, <1>2, TypedAlike
  <1>4. /\ q.offered = run.offered /\ q.count = run.count /\ q.failed = run.failed
        /\ q.repeats = run.repeats /\ q.tried = run.tried /\ q.done = run.done /\ q.at = "try"
    BY <1>1, <1>2 DEF Alike, RunFields
  <1>5. run.count \in Int /\ run.count <= run.count /\ \A c : ~AtHand(run, c)
    BY <1>0, <1>1 DEF RunTyped, AtHand
  <1>6. CASE Goes(q)
    <2>1. RouteHolds(q)
      BY <1>0, <1>1, <1>2, <1>4, <1>5, RouteGoesOn
    <2>2. CandHolds(q) /\ FreshHolds(q)
      BY <1>4 DEF CandHolds, FreshHolds
    <2> QED
      BY <1>3, <1>6, <2>1, <2>2, FitsMoves DEF Fits
  <1>7. CASE \E how \in {"source", "generated"} : Goes(Uploads(q, None, how))
    <2>1. PICK how \in {"source", "generated"} : Goes(Uploads(q, None, how))
      BY <1>7
    <2> DEFINE p == Uploads(q, None, how)
    <2>2. /\ Alike(q, p, {"at", "cand", "how"})
          /\ p.at = "upload" /\ p.cand = None /\ p.how = how
      BY <1>3, UploadsFields DEF RunTyped
    <2>6. Goes(p)
      BY <2>1
    <2> HIDE DEF p
    <2>3. RunTyped(p)
      BY <1>3, <2>2, TypedAlike DEF Steps, Hows
    <2>4. /\ p.offered = run.offered /\ p.count = run.count /\ p.failed = run.failed
          /\ p.repeats = run.repeats /\ p.tried = run.tried /\ p.done = run.done
          /\ p.tries = Tail(run.tries)
      BY <1>2, <1>4, <2>2 DEF Alike, RunFields
    <2>5. RouteHolds(p)
      BY <1>0, <1>1, <1>5, <2>4, RouteGoesOn
    <2>7. CandHolds(p) /\ FreshHolds(p)
      BY <2>2 DEF CandHolds, FreshHolds
    <2> QED
      BY <2>3, <2>5, <2>6, <2>7, FitsMoves DEF Fits
  <1> QED
    BY <1>1, <1>6, <1>7

\* V1: an image of a search is fresh, and of its content nothing is known.
LEMMA StockV1Step ==
    ASSUME ImageInv, TryStockV1, faults' \in 0..MaxFaults
    PROVE  ImageInv'
  <1>0. RunTyped(run) /\ IsRun(run) /\ run.at = "try" /\ run.tries # <<>> /\ Head(run.tries) = "stock"
    BY DEF ImageInv, Fits, RunTyped, TryStockV1, Trying
  <1>1. config.engine = "v1"
    <2>1. config.engine = "v2" => run.tries \in Seq(V2Tries)
      BY DEF ImageInv, Fits, RouteHolds
    <2>2. config.engine # "v2"
      <3> SUFFICES ASSUME config.engine = "v2" PROVE FALSE
        OBVIOUS
      <3>1. Head(run.tries) \in V2Tries
        BY <1>0, <2>1, SequencesShorten
      <3> QED
        BY <1>0, <3>1 DEF V2Tries
    <2> QED
      BY <2>2, MediaAssumption DEF ImageInv, TablesTyped
  <1>2. \A r : RouteHolds(r)
    BY <1>1 DEF RouteHolds, StockRoute
  <1>3. ASSUME NEW q, RunTyped(q), q.at = "try", Goes(q)
        PROVE  ImageInv'
    <2>1. CandHolds(q) /\ FreshHolds(q)
      BY <1>3 DEF CandHolds, FreshHolds
    <2> QED
      BY <1>2, <1>3, <2>1, FitsMoves DEF Fits
  <1>4. PICK blind \in BOOLEAN :
          LET left == V1Left(run, blind)
              read == [run EXCEPT !.blind = blind]
          IN  IF left = {} THEN Goes([run EXCEPT !.tries = Tail(@), !.tried = {}])
              ELSE \/ Goes(Uploads([read EXCEPT !.tries = <<>>], Min(left), "strict"))
                   \/ Goes([run EXCEPT !.tried = @ \cup {Min(left)}])
    BY DEF TryStockV1
  <1> DEFINE left == V1Left(run, blind)
  <1>5. left \subseteq Candidates /\ (left # {} => Min(left) \in left)
    <2>1. left \subseteq Candidates
      BY DEF V1Left
    <2> HIDE DEF left
    <2> QED
      BY <2>1, MinIsThere
  <1>6. CASE left = {}
    <2> DEFINE q == [run EXCEPT !.tries = Tail(@), !.tried = {}]
    <2>1. Alike(run, q, {"tries", "tried"}) /\ q.tried = {} /\ q.at = "try"
      BY <1>0 DEF Alike, IsRun, RunFields
    <2>2. Goes(q)
      BY <1>4, <1>6
    <2> HIDE DEF q
    <2>3. RunTyped(q)
      BY <1>0, <2>1, TypedAlike
    <2> QED
      BY <1>3, <2>1, <2>2, <2>3
  <1>7. CASE left # {} /\ Goes([run EXCEPT !.tried = @ \cup {Min(left)}])
    <2> DEFINE q == [run EXCEPT !.tried = @ \cup {Min(left)}]
    <2>1. Alike(run, q, {"tried"}) /\ q.tried = run.tried \cup {Min(left)} /\ q.at = "try"
      BY <1>0 DEF Alike, IsRun, RunFields
    <2>2. Goes(q)
      BY <1>7
    <2> HIDE DEF q, left
    <2>4. q.tried \subseteq Candidates
      BY <1>0, <1>5, <1>7, <2>1 DEF RunTyped
    <2>3. RunTyped(q)
      BY <1>0, <2>1, <2>4, TypedAlike
    <2> QED
      BY <1>3, <2>1, <2>2, <2>3
  <1>8. CASE left # {} /\ Goes(Uploads([[run EXCEPT !.blind = blind] EXCEPT !.tries = <<>>],
                                       Min(left), "strict"))
    <2> DEFINE r == [[run EXCEPT !.blind = blind] EXCEPT !.tries = <<>>]
               c == Min(left)
               q == Uploads(r, c, "strict")
    <2>1. Alike(run, r, {"blind", "tries"}) /\ r.blind = blind
      BY <1>0 DEF Alike, IsRun, RunFields
    <2>2. Goes(q)
      BY <1>8
    <2>3. c \in Candidates /\ Fresh(c, blind)
      BY <1>5, <1>8 DEF V1Left
    <2> HIDE DEF r, c, left
    <2>4. RunTyped(r)
      BY <1>0, <2>1, TypedAlike
    <2>5. /\ Alike(r, q, {"at", "cand", "how"})
          /\ q.at = "upload" /\ q.cand = c /\ q.how = "strict"
      BY <2>4, UploadsFields DEF RunTyped
    <2> HIDE DEF q
    <2>6. q.blind = blind
      BY <2>1, <2>5 DEF Alike, RunFields
    <2>7. RunTyped(q)
      BY <2>3, <2>4, <2>5, TypedAlike DEF Steps, Hows
    <2>8. c # None /\ Catalog[c].content # NoContent
      BY <2>3, MediaAssumption DEF None
    <2>9. ~ContentUsed(Catalog[c].content)
      BY <1>1, <2>8 DEF ImageInv, TablesTyped, ContentUsed
    <2>10. CandHolds(q) /\ FreshHolds(q)
      BY <2>3, <2>5, <2>6, <2>8, <2>9 DEF CandHolds, FreshHolds
    <2> QED
      BY <1>2, <2>2, <2>7, <2>10, FitsMoves DEF Fits
  <1> QED
    BY <1>4, <1>6, <1>7, <1>8

\* The V2 search begins with what the providers give.
LEMMA SearchesStep ==
    ASSUME ImageInv, SearchAll \/ SearchPart, faults' \in 0..MaxFaults
    PROVE  ImageInv'
  <1>0. RunTyped(run) /\ RouteHolds(run) /\ IsRun(run) /\ run.at = "try"
    BY DEF ImageInv, Fits, RunTyped, SearchAll, SearchPart, Trying
  <1>1. ASSUME NEW q, NEW part \in SUBSET Candidates, NEW F, F \subseteq {"broken"},
               NEW blind \in BOOLEAN,
               Alike(run, q, F \cup {"at", "tries", "blind", "offered"}),
               q.at = "strict", q.tries = <<>>, q.blind = blind, q.offered = part, Goes(q)
        PROVE  ImageInv'
    <2>1. RunTyped(q)
      <3>1. "strict" \in Steps
        BY DEF Steps
      <3> QED
        BY <1>0, <1>1, <3>1, TypedAlike
    <2>2. /\ q.count = run.count /\ q.failed = run.failed /\ q.repeats = run.repeats
          /\ q.tried = run.tried /\ q.done = run.done
      BY <1>1 DEF Alike, RunFields
    <2>3. run.count \in Int /\ run.count <= run.count /\ \A c : ~AtHand(run, c)
      BY <1>0 DEF RunTyped, AtHand
    <2>4. RouteHolds(q)
      BY <1>0, <1>1, <2>2, <2>3, RouteGoesOn
    <2>5. CandHolds(q) /\ FreshHolds(q)
      BY <1>1 DEF CandHolds, FreshHolds
    <2> QED
      BY <1>1, <2>1, <2>4, <2>5, FitsMoves DEF Fits
  <1>2. CASE SearchAll
    <2>1. PICK blind \in BOOLEAN :
            Goes([run EXCEPT !.at = "strict", !.tries = <<>>, !.blind = blind,
                             !.offered = Candidates])
      BY <1>2 DEF SearchAll
    <2> DEFINE q == [run EXCEPT !.at = "strict", !.tries = <<>>, !.blind = blind,
                                !.offered = Candidates]
               G == {} \cup {"at", "tries", "blind", "offered"}
    <2>2. /\ IsRun(q) /\ q.at = "strict" /\ q.tries = <<>> /\ q.blind = blind
          /\ q.offered = Candidates
      BY <1>0 DEF IsRun, RunFields
    <2>3. Alike(run, q, G)
      <3>1. \A f \in RunFields \ G : q[f] = run[f]
        BY <1>0 DEF IsRun, RunFields
      <3> QED
        BY <2>2, <3>1 DEF Alike
    <2> HIDE DEF q
    <2>4. Candidates \in SUBSET Candidates /\ {} \subseteq {"broken"} /\ Goes(q)
      BY <2>1 DEF q
    <2> QED
      BY <1>1, <2>2, <2>3, <2>4
  <1>3. CASE SearchPart
    <2>1. PICK part \in SUBSET Candidates :
            Goes([run EXCEPT !.at = "strict", !.tries = <<>>, !.blind = ~config.history,
                             !.offered = part, !.broken = TRUE])
      BY <1>3 DEF SearchPart
    <2> DEFINE blind == ~config.history
               q == [run EXCEPT !.at = "strict", !.tries = <<>>, !.blind = blind,
                                !.offered = part, !.broken = TRUE]
               G == {"broken"} \cup {"at", "tries", "blind", "offered"}
    <2>2. /\ IsRun(q) /\ q.at = "strict" /\ q.tries = <<>> /\ q.blind = blind
          /\ q.offered = part
      BY <1>0 DEF IsRun, RunFields
    <2>3. Alike(run, q, G)
      <3>1. \A f \in RunFields \ G : q[f] = run[f]
        BY <1>0 DEF IsRun, RunFields
      <3> QED
        BY <2>2, <3>1 DEF Alike
    <2> HIDE DEF q
    <2>5. blind \in BOOLEAN
      OBVIOUS
    <2>4. {"broken"} \subseteq {"broken"} /\ Goes(q)
      BY <2>1 DEF q
    <2> HIDE DEF blind
    <2> QED
      BY <1>1, <2>2, <2>3, <2>4, <2>5
  <1> QED
    BY <1>2, <1>3

\* The next strict candidate is tried: it fails, is put off for its content, or is
\* uploaded, fresh and of content not used before.
LEMMA StrictStep ==
    ASSUME ImageInv, StrictDownloadFails \/ StrictDownload, faults' \in 0..MaxFaults
    PROVE  ImageInv'
  <1> DEFINE c == NextStrict(run)
             asset == Catalog[c].asset
  <1>0. RunTyped(run) /\ RouteHolds(run) /\ IsRun(run) /\ run.at = "strict" /\ ~StrictOver(run)
    BY DEF ImageInv, Fits, RunTyped, StrictDownloadFails, StrictDownload
  <1>1. /\ c \in Candidates /\ c \in run.offered /\ Fresh(c, run.blind) /\ c # None
        /\ Catalog[c].url \in Urls /\ asset \in Assets
    <2>1. c \in Plan(run) /\ c \in Candidates
      BY <1>0, NextStrictPlanned DEF StrictOver, RunTyped
    <2>2. c # None
      BY <2>1, MediaAssumption DEF None
    <2> HIDE DEF c
    <2> QED
      BY <2>1, <2>2 DEF Plan, Urls, Assets
  <1> HIDE DEF c, asset
  <1>2. run.count \in Int /\ run.count <= run.count /\ \A d : ~AtHand(run, d)
    BY <1>0 DEF RunTyped, AtHand
  <1>3. ASSUME NEW q, RunTyped(q), q.tried = run.tried \cup {c}, q.tries = run.tries,
               q.offered = run.offered, q.count = run.count, q.done = run.done,
               run.failed \subseteq q.failed, run.repeats \subseteq q.repeats,
               \/ Catalog[c].url \in q.failed
               \/ Catalog[c].asset \in q.repeats
               \/ AtHand(q, c),
               CandHolds(q), FreshHolds(q), Goes(q)
        PROVE  ImageInv'
    <2>1. RouteHolds(q)
      BY <1>0, <1>2, <1>3, RouteGoesOn DEF Settled
    <2> QED
      BY <1>3, <2>1, FitsMoves DEF Fits
  <1>4. CASE StrictDownloadFails
    <2>1. PICK broken \in {run.broken, TRUE} :
            Goes([Failing(run, {c}) EXCEPT !.tried = @ \cup {c}, !.broken = broken])
      BY <1>4 DEF StrictDownloadFails, c
    <2> DEFINE r == Failing(run, {c})
               q == [r EXCEPT !.tried = @ \cup {c}, !.broken = broken]
    <2>2. Alike(run, r, {"failed"}) /\ r.failed = run.failed \cup UrlsOf({c})
      BY <1>0, FailingFields
    <2> HIDE DEF r
    <2>3. /\ IsRun(q) /\ q.tried = r.tried \cup {c}
          /\ \A f \in RunFields \ {"tried", "broken"} : q[f] = r[f]
      BY <2>2 DEF Alike, IsRun, RunFields
    <2>4. Goes(q)
      BY <2>1 DEF r
    <2> HIDE DEF q
    <2>5. /\ Alike(run, q, {"failed", "tried", "broken"})
          /\ q.tried = run.tried \cup {c} /\ q.failed = run.failed \cup UrlsOf({c})
      BY <2>2, <2>3 DEF Alike, RunFields
    <2>6. /\ q.tries = run.tries /\ q.offered = run.offered /\ q.count = run.count
          /\ q.done = run.done /\ q.repeats = run.repeats /\ q.at = "strict"
      BY <1>0, <2>5 DEF Alike, RunFields
    <2>7. q.tried \subseteq Candidates /\ q.failed \subseteq Urls /\ Catalog[c].url \in q.failed
      BY <1>0, <1>1, <2>5, UrlsThere DEF RunTyped
    <2>8. RunTyped(q)
      BY <1>0, <2>5, <2>7, TypedAlike
    <2>9. CandHolds(q) /\ FreshHolds(q)
      BY <2>6 DEF CandHolds, FreshHolds
    <2> QED
      BY <1>3, <2>4, <2>5, <2>6, <2>7, <2>8, <2>9
  <1>5. CASE StrictDownload
    <2> DEFINE r == [run EXCEPT !.tried = @ \cup {c}, !.got = @ \cup {Catalog[c].url}]
               q1 == [r EXCEPT !.repeats = @ \cup {asset}, !.seen = @ \cup {c}]
               G == Group(c) \cap run.offered
               q2 == [Failing(r, G) EXCEPT !.repeats = @ \cup {asset}]
               q3 == Uploads(r, c, "strict")
               q4 == [Failing(r, {c}) EXCEPT !.seen = @ \cup {c}]
    <2>1. \/ Goes(q1) \/ Goes(q2) \/ (~ContentUsed(Catalog[c].content) /\ Goes(q3))
          \/ Goes(q4)
      BY <1>5 DEF StrictDownload, c, asset
    <2>2. /\ Alike(run, r, {"tried", "got"})
          /\ r.tried = run.tried \cup {c} /\ r.got = run.got \cup {Catalog[c].url}
      <3>1. /\ IsRun(r) /\ r.tried = run.tried \cup {c} /\ r.got = run.got \cup {Catalog[c].url}
        BY <1>0 DEF IsRun, RunFields
      <3>2. \A f \in RunFields \ {"tried", "got"} : r[f] = run[f]
        BY <1>0 DEF IsRun, RunFields
      <3> QED
        BY <3>1, <3>2 DEF Alike
    <2> HIDE DEF r
    <2>3. RunTyped(r) /\ IsRun(r)
      <3>1. r.tried \subseteq Candidates /\ r.got \subseteq Urls
        BY <1>0, <1>1, <2>2 DEF RunTyped
      <3> QED
        BY <1>0, <2>2, <3>1, TypedAlike DEF RunTyped
    <2>4. /\ r.tries = run.tries /\ r.offered = run.offered /\ r.count = run.count
          /\ r.done = run.done /\ r.repeats = run.repeats /\ r.at = "strict"
          /\ r.failed = run.failed /\ r.blind = run.blind
      BY <1>0, <2>2 DEF Alike, RunFields
    <2>5. CASE Goes(q1)
      <3>1. /\ Alike(r, q1, {"repeats", "seen"})
            /\ q1.repeats = r.repeats \cup {asset} /\ q1.seen = r.seen \cup {c}
        BY <2>3 DEF Alike, IsRun, RunFields
      <3> HIDE DEF q1
      <3>2. q1.repeats \subseteq Assets /\ q1.seen \subseteq Candidates
        BY <1>1, <2>3, <3>1 DEF RunTyped
      <3>3. RunTyped(q1)
        BY <2>3, <3>1, <3>2, TypedAlike
      <3>4. /\ q1.tries = run.tries /\ q1.offered = run.offered /\ q1.count = run.count
            /\ q1.done = run.done /\ q1.at = "strict" /\ q1.failed = run.failed
            /\ q1.tried = run.tried \cup {c}
        BY <2>2, <2>4, <3>1 DEF Alike, RunFields
      <3>5. CandHolds(q1) /\ FreshHolds(q1)
        BY <3>4 DEF CandHolds, FreshHolds
      <3> QED
        BY <1>3, <2>4, <2>5, <3>1, <3>3, <3>4, <3>5 DEF asset
    <2>6. CASE Goes(q2)
      <3> DEFINE p == Failing(r, G)
      <3>1. Alike(r, p, {"failed"}) /\ p.failed = r.failed \cup UrlsOf(G)
        BY <2>3, FailingFields
      <3>2. G \subseteq Candidates /\ c \in G
        BY <1>1 DEF Group
      <3> HIDE DEF p, G
      <3>3. /\ Alike(p, q2, {"repeats"}) /\ q2.repeats = p.repeats \cup {asset}
        BY <3>1 DEF Alike, IsRun, RunFields, p
      <3> HIDE DEF q2
      <3>4. p.failed \subseteq Urls /\ Catalog[c].url \in p.failed
        BY <2>3, <3>1, <3>2, UrlsThere DEF RunTyped
      <3>5. RunTyped(p)
        BY <2>3, <3>1, <3>4, TypedAlike
      <3>6. q2.repeats \subseteq Assets
        BY <1>1, <3>3, <3>5 DEF RunTyped
      <3>7. RunTyped(q2)
        BY <3>3, <3>5, <3>6, TypedAlike
      <3>8. /\ p.tries = run.tries /\ p.offered = run.offered /\ p.count = run.count
            /\ p.done = run.done /\ p.at = "strict" /\ p.repeats = run.repeats
            /\ p.tried = run.tried \cup {c}
        BY <2>2, <2>4, <3>1 DEF Alike, RunFields
      <3>9. /\ q2.tries = run.tries /\ q2.offered = run.offered /\ q2.count = run.count
            /\ q2.done = run.done /\ q2.at = "strict" /\ q2.failed = p.failed
            /\ q2.tried = run.tried \cup {c}
        BY <3>3, <3>8 DEF Alike, RunFields
      <3>10. CandHolds(q2) /\ FreshHolds(q2)
        BY <3>9 DEF CandHolds, FreshHolds
      <3>11. run.failed \subseteq q2.failed /\ run.repeats \subseteq q2.repeats
             /\ Catalog[c].url \in q2.failed
        BY <2>4, <3>1, <3>3, <3>4, <3>8, <3>9
      <3> QED
        BY <1>3, <2>6, <3>7, <3>9, <3>10, <3>11
    <2>7. CASE ~ContentUsed(Catalog[c].content) /\ Goes(q3)
      <3>1. /\ Alike(r, q3, {"at", "cand", "how"})
            /\ q3.at = "upload" /\ q3.cand = c /\ q3.how = "strict"
        BY <2>3, UploadsFields
      <3> HIDE DEF q3
      <3>2. RunTyped(q3)
        BY <1>1, <2>3, <3>1, TypedAlike DEF Steps, Hows
      <3>3. /\ q3.tries = run.tries /\ q3.offered = run.offered /\ q3.count = run.count
            /\ q3.done = run.done /\ q3.failed = run.failed /\ q3.repeats = run.repeats
            /\ q3.tried = run.tried \cup {c} /\ q3.blind = run.blind
        BY <2>2, <2>4, <3>1 DEF Alike, RunFields
      <3>4. AtHand(q3, c)
        BY <3>1 DEF AtHand
      <3>5. CandHolds(q3) /\ FreshHolds(q3)
        BY <1>1, <2>7, <3>1, <3>3 DEF CandHolds, FreshHolds
      <3> QED
        BY <1>3, <2>7, <3>2, <3>3, <3>4, <3>5
    <2>8. CASE Goes(q4)
      <3> DEFINE p == Failing(r, {c})
      <3>1. Alike(r, p, {"failed"}) /\ p.failed = r.failed \cup UrlsOf({c})
        BY <2>3, FailingFields
      <3> HIDE DEF p
      <3>3. /\ Alike(p, q4, {"seen"}) /\ q4.seen = p.seen \cup {c}
        BY <3>1 DEF Alike, IsRun, RunFields, p
      <3> HIDE DEF q4
      <3>4. p.failed \subseteq Urls /\ Catalog[c].url \in p.failed
        BY <1>1, <2>3, <3>1, UrlsThere DEF RunTyped
      <3>5. RunTyped(p)
        BY <2>3, <3>1, <3>4, TypedAlike
      <3>6. q4.seen \subseteq Candidates
        BY <1>1, <3>3, <3>5 DEF RunTyped
      <3>7. RunTyped(q4)
        BY <3>3, <3>5, <3>6, TypedAlike
      <3>8. /\ p.tries = run.tries /\ p.offered = run.offered /\ p.count = run.count
            /\ p.done = run.done /\ p.at = "strict" /\ p.repeats = run.repeats
            /\ p.tried = run.tried \cup {c}
        BY <2>2, <2>4, <3>1 DEF Alike, RunFields
      <3>9. /\ q4.tries = run.tries /\ q4.offered = run.offered /\ q4.count = run.count
            /\ q4.done = run.done /\ q4.at = "strict" /\ q4.failed = p.failed
            /\ q4.tried = run.tried \cup {c} /\ q4.repeats = run.repeats
        BY <3>3, <3>8 DEF Alike, RunFields
      <3>10. CandHolds(q4) /\ FreshHolds(q4)
        BY <3>9 DEF CandHolds, FreshHolds
      <3>11. run.failed \subseteq q4.failed /\ Catalog[c].url \in q4.failed
        BY <2>4, <3>1, <3>4, <3>9
      <3> QED
        BY <1>3, <2>8, <3>7, <3>9, <3>10, <3>11
    <2> QED
      BY <2>1, <2>5, <2>6, <2>7, <2>8
  <1> QED
    BY <1>4, <1>5

LEMMA StrictEndsStep ==
    ASSUME ImageInv, StrictEnds, faults' \in 0..MaxFaults
    PROVE  ImageInv'
  <1> DEFINE q == [run EXCEPT !.at = "rescue", !.seen = {},
                              !.exhausted = ~run.broken /\ Plan(run) = {}]
  <1>0. RunTyped(run) /\ RouteHolds(run) /\ IsRun(run) /\ run.at = "strict" /\ Goes(q)
    BY DEF ImageInv, Fits, RunTyped, StrictEnds
  <1>1. IsRun(q) /\ q.at = "rescue" /\ q.seen = {}
    BY <1>0 DEF IsRun, RunFields
  <1>2. \A f \in RunFields \ {"at", "seen", "exhausted"} : q[f] = run[f]
    BY <1>0 DEF IsRun, RunFields
  <1> HIDE DEF q
  <1>3. Alike(run, q, {"at", "seen", "exhausted"})
    BY <1>1, <1>2 DEF Alike
  <1>4. RunTyped(q)
    BY <1>0, <1>1, <1>3, TypedAlike DEF Steps
  <1>5. /\ q.tries = run.tries /\ q.offered = run.offered /\ q.count = run.count
        /\ q.done = run.done /\ q.failed = run.failed /\ q.repeats = run.repeats
        /\ q.tried = run.tried
    BY <1>2 DEF RunFields
  <1>6. run.count \in Int /\ run.count <= run.count /\ \A d : ~AtHand(run, d)
    BY <1>0 DEF RunTyped, AtHand
  <1>7. RouteHolds(q)
    BY <1>0, <1>5, <1>6, RouteGoesOn
  <1>8. CandHolds(q) /\ FreshHolds(q)
    BY <1>1 DEF CandHolds, FreshHolds
  <1> QED
    BY <1>0, <1>4, <1>7, <1>8, FitsMoves DEF Fits

\* Rescue attempts the next of its pool within its budget: the candidate fails, is
\* moved to the last tier, or is uploaded.
LEMMA RescueStep ==
    ASSUME ImageInv, RescueDownloadFails \/ RescueDownload, faults' \in 0..MaxFaults
    PROVE  ImageInv'
  <1> DEFINE c == NextRescue(run)
             url == Catalog[c].url
             asset == Catalog[c].asset
  <1>0. RunTyped(run) /\ RouteHolds(run) /\ IsRun(run) /\ run.at = "rescue" /\ ~RescueOver(run)
    BY DEF ImageInv, Fits, RunTyped, RescueDownloadFails, RescueDownload
  <1>1. c \in Candidates /\ c # None /\ url \in Urls /\ asset \in Assets
    <2>1. c \in Candidates
      BY <1>0, NextRescuePooled DEF RescueOver, RunTyped
    <2>2. c # None
      BY <2>1, MediaAssumption DEF None
    <2> HIDE DEF c
    <2> QED
      BY <2>1, <2>2 DEF Urls, Assets
  <1>2. /\ run.count + 1 \in 0..RescueLimit /\ run.count + 1 \in Int
        /\ run.count <= run.count + 1 /\ \A d : ~AtHand(run, d)
    <2>1. run.count \in 0..RescueLimit /\ ~(run.count >= RescueLimit) /\ RescueLimit \in Nat
      BY <1>0, MediaAssumption DEF RunTyped, RescueOver
    <2> QED
      BY <1>0, <2>1 DEF AtHand
  <1> HIDE DEF c
  <1>3. ASSUME NEW q, RunTyped(q), q.tried = run.tried, q.tries = run.tries,
               q.offered = run.offered, q.count = run.count + 1,
               \/ q.done = run.done
               \/ q.done = run.done \cup {c} /\ (url \in q.failed \/ AtHand(q, c)),
               run.failed \subseteq q.failed, run.repeats \subseteq q.repeats,
               CandHolds(q), FreshHolds(q), Goes(q)
        PROVE  ImageInv'
    <2>1. RouteHolds(q)
      BY <1>0, <1>2, <1>3, RouteGoesOn DEF Settled
    <2> QED
      BY <1>3, <2>1, FitsMoves DEF Fits
  <1>4. CASE RescueDownloadFails
    <2> DEFINE r == Attempted(run, c)
               q == Failing(r, {c})
    <2>1. Goes(q)
      BY <1>4 DEF RescueDownloadFails, c
    <2>2. /\ Alike(run, r, {"count", "done"})
          /\ r.count = run.count + 1 /\ r.done = run.done \cup {c}
      BY <1>0, AttemptedFields
    <2> HIDE DEF r
    <2>3. Alike(r, q, {"failed"}) /\ q.failed = r.failed \cup UrlsOf({c})
      BY <2>2, FailingFields DEF Alike
    <2> HIDE DEF q
    <2>4. /\ Alike(run, q, {"count", "done", "failed"}) /\ q.count = run.count + 1
          /\ q.done = run.done \cup {c} /\ q.failed = run.failed \cup UrlsOf({c})
      BY <2>2, <2>3 DEF Alike, RunFields
    <2>5. /\ q.tries = run.tries /\ q.offered = run.offered /\ q.tried = run.tried
          /\ q.repeats = run.repeats /\ q.at = "rescue"
      BY <1>0, <2>4 DEF Alike, RunFields
    <2>6. q.done \subseteq Candidates /\ q.failed \subseteq Urls /\ url \in q.failed
      BY <1>0, <1>1, <2>4, UrlsThere DEF RunTyped
    <2>7. RunTyped(q)
      BY <1>0, <1>2, <2>4, <2>6, TypedAlike
    <2>8. CandHolds(q) /\ FreshHolds(q)
      BY <2>5 DEF CandHolds, FreshHolds
    <2> QED
      BY <1>3, <2>1, <2>4, <2>5, <2>6, <2>7, <2>8
  <1>5. CASE RescueDownload
    <2> DEFINE worn == ContentUsed(Catalog[c].content)
               back == [run EXCEPT !.count = @ + 1, !.got = @ \cup {Catalog[c].url},
                                   !.repeats = IF worn THEN @ \cup {Catalog[c].asset} ELSE @]
               r == [back EXCEPT !.done = @ \cup {c}]
               q1 == Uploads(r, c, "rescue")
               q2 == Failing(r, {c})
    <2>1. Goes(back) \/ Goes(q1) \/ Goes(q2)
      BY <1>5 DEF RescueDownload, c
    <2>2. /\ Alike(run, back, {"count", "got", "repeats"}) /\ back.count = run.count + 1
          /\ back.got = run.got \cup {url}
          /\ back.repeats = run.repeats \/ back.repeats = run.repeats \cup {asset}
      <3> HIDE DEF worn
      <3>1. /\ IsRun(back) /\ back.count = run.count + 1 /\ back.got = run.got \cup {url}
            /\ back.repeats = run.repeats \/ back.repeats = run.repeats \cup {asset}
        BY <1>0 DEF IsRun, RunFields
      <3>2. \A f \in RunFields \ {"count", "got", "repeats"} : back[f] = run[f]
        BY <1>0 DEF IsRun, RunFields
      <3> QED
        BY <3>1, <3>2 DEF Alike
    <2> HIDE DEF back, worn
    <2>3. RunTyped(back) /\ IsRun(back)
      <3>1. back.got \subseteq Urls /\ back.repeats \subseteq Assets
        BY <1>0, <1>1, <2>2 DEF RunTyped
      <3> QED
        BY <1>0, <1>2, <2>2, <3>1, TypedAlike DEF RunTyped
    <2>4. /\ back.tries = run.tries /\ back.offered = run.offered /\ back.tried = run.tried
          /\ back.done = run.done /\ back.failed = run.failed /\ back.at = "rescue"
          /\ run.repeats \subseteq back.repeats
      BY <1>0, <2>2 DEF Alike, RunFields
    <2>5. CASE Goes(back)
      <3>1. CandHolds(back) /\ FreshHolds(back)
        BY <2>4 DEF CandHolds, FreshHolds
      <3> QED
        BY <1>3, <2>2, <2>3, <2>4, <2>5, <3>1
    <2>6. Alike(back, r, {"done"}) /\ r.done = back.done \cup {c}
      BY <2>3 DEF Alike, IsRun, RunFields
    <2> HIDE DEF r
    <2>7. /\ r.tries = run.tries /\ r.offered = run.offered /\ r.tried = run.tried
          /\ r.done = run.done \cup {c} /\ r.failed = run.failed /\ r.at = "rescue"
          /\ r.count = run.count + 1 /\ run.repeats \subseteq r.repeats
      BY <2>2, <2>4, <2>6 DEF Alike, RunFields
    <2>8. RunTyped(r) /\ IsRun(r)
      <3>1. r.done \subseteq Candidates
        BY <1>0, <1>1, <2>7 DEF RunTyped
      <3> QED
        BY <2>3, <2>6, <3>1, TypedAlike DEF RunTyped
    <2>9. CASE Goes(q1)
      <3>1. /\ Alike(r, q1, {"at", "cand", "how"})
            /\ q1.at = "upload" /\ q1.cand = c /\ q1.how = "rescue"
        BY <2>8, UploadsFields
      <3> HIDE DEF q1
      <3>2. RunTyped(q1)
        BY <1>1, <2>8, <3>1, TypedAlike DEF Steps, Hows
      <3>3. /\ q1.tries = run.tries /\ q1.offered = run.offered /\ q1.tried = run.tried
            /\ q1.done = run.done \cup {c} /\ q1.failed = run.failed
            /\ q1.count = run.count + 1 /\ run.repeats \subseteq q1.repeats
        BY <2>7, <3>1 DEF Alike, RunFields
      <3>4. AtHand(q1, c)
        BY <3>1 DEF AtHand
      <3>5. CandHolds(q1) /\ FreshHolds(q1)
        BY <1>1, <3>1 DEF CandHolds, FreshHolds
      <3> QED
        BY <1>3, <2>9, <3>2, <3>3, <3>4, <3>5
    <2>10. CASE Goes(q2)
      <3>1. Alike(r, q2, {"failed"}) /\ q2.failed = r.failed \cup UrlsOf({c})
        BY <2>8, FailingFields
      <3> HIDE DEF q2
      <3>2. q2.failed \subseteq Urls /\ url \in q2.failed
        BY <1>1, <2>8, <3>1, UrlsThere DEF RunTyped
      <3>3. RunTyped(q2)
        BY <2>8, <3>1, <3>2, TypedAlike
      <3>4. /\ q2.tries = run.tries /\ q2.offered = run.offered /\ q2.tried = run.tried
            /\ q2.done = run.done \cup {c} /\ q2.count = run.count + 1
            /\ run.repeats \subseteq q2.repeats /\ q2.at = "rescue"
            /\ run.failed \subseteq q2.failed
        BY <2>7, <3>1 DEF Alike, RunFields
      <3>5. CandHolds(q2) /\ FreshHolds(q2)
        BY <3>4 DEF CandHolds, FreshHolds
      <3> QED
        BY <1>3, <2>10, <3>2, <3>3, <3>4, <3>5
    <2> QED
      BY <2>1, <2>5, <2>9, <2>10
  <1> QED
    BY <1>4, <1>5

\* Rescue ends when it is spent, and the generators follow.
LEMMA RescueEndsStep ==
    ASSUME ImageInv, RescueEnds, faults' \in 0..MaxFaults
    PROVE  ImageInv'
  <1> DEFINE q == [run EXCEPT !.at = "try", !.tries = RouteAfter(run)]
  <1>0. /\ RunTyped(run) /\ RouteHolds(run) /\ IsRun(run) /\ run.at = "rescue" /\ Goes(q)
        /\ RescueOver(run) /\ config \in Configs
    BY DEF ImageInv, TablesTyped, Fits, RunTyped, RescueEnds
  <1>1. IsRun(q) /\ q.at = "try" /\ q.tries = RouteAfter(run)
    BY <1>0 DEF IsRun, RunFields
  <1>2. \A f \in RunFields \ {"at", "tries"} : q[f] = run[f]
    BY <1>0 DEF IsRun, RunFields
  <1> HIDE DEF q
  <1>3. Alike(run, q, {"at", "tries"})
    BY <1>1, <1>2 DEF Alike
  <1>4. RunTyped(q)
    BY <1>0, <1>1, <1>3, TypedAlike DEF Steps
  <1>5. /\ q.offered = run.offered /\ q.count = run.count
        /\ q.done = run.done /\ q.failed = run.failed /\ q.repeats = run.repeats
        /\ q.tried = run.tried
    BY <1>2 DEF RunFields
  <1>6. \A d : ~AtHand(run, d)
    BY <1>0 DEF AtHand
  <1>7. StockRoute /\ config.rescue => RescueSpent(q)
    <2> SUFFICES ASSUME StockRoute, config.rescue, ~(run.count >= RescueLimit),
                        NEW c \in run.offered, Catalog[c].safe
                 PROVE  Catalog[c].url \in run.failed
      BY <1>5 DEF RescueSpent
    <2>1. Pool(run) = {}
      BY <1>0 DEF RescueOver
    <2>2. c \in run.done => Catalog[c].url \in run.failed
      BY <1>0, <1>6 DEF RouteHolds
    <2>3. c \in run.tried => Catalog[c].url \in run.failed \/ Catalog[c].asset \in run.repeats
      BY <1>0, <1>6 DEF RouteHolds
    <2>4. Catalog[c].asset \in run.repeats => Soft(run, c) # {}
      BY DEF Soft
    <2>5. \/ c \in run.done \/ Catalog[c].url \in run.failed
          \/ Soft(run, c) = {} /\ c \in run.tried
      BY <2>1 DEF Pool
    <2> QED
      BY <2>2, <2>3, <2>4, <2>5
  <1>8. RouteHolds(q)
    <2>1. q.tries \in Seq(Lasts) /\ q.tries \in Seq(V2Tries)
      BY <1>0, <1>1, RouteAfterEnds
    <2>2. ASSUME StockRoute
          PROVE  /\ \A d \in q.tried : \/ Catalog[d].url \in q.failed
                                       \/ Catalog[d].asset \in q.repeats
                                       \/ AtHand(q, d)
                 /\ \A d \in q.done : Catalog[d].url \in q.failed \/ AtHand(q, d)
      BY <1>0, <1>5, <1>6, <2>2 DEF RouteHolds
    <2> QED
      BY <1>7, <2>1, <2>2 DEF RouteHolds
  <1>9. CandHolds(q) /\ FreshHolds(q)
    BY <1>1 DEF CandHolds, FreshHolds
  <1> QED
    BY <1>0, <1>4, <1>8, <1>9, FitsMoves DEF Fits

\* A refused image settles the candidate at hand.
LEMMA RefusedFits ==
    ASSUME NEW r, RunTyped(r), CandHolds(r), RouteHolds(r), r.at \in {"upload", "credit"}
    PROVE  LET q == Refused(r)
           IN  /\ RunTyped(q) /\ CandHolds(q) /\ RouteHolds(q)
               /\ q.at \in {"try", "strict", "rescue"}
  <1> DEFINE Right(q) == /\ RunTyped(q) /\ CandHolds(q) /\ RouteHolds(q)
                         /\ q.at \in {"try", "strict", "rescue"}
  <1>0. IsRun(r) /\ r.count \in Int /\ r.count <= r.count /\ 0 \in 0..MaxMedia
    BY MediaAssumption DEF RunTyped
  <1>1. CASE StockRoute /\ r.how \in {"strict", "rescue"}
    <2> DEFINE p == Failing(r, {r.cand})
               q == [p EXCEPT !.at = r.how, !.cand = None, !.id = None]
    <2>1. Refused(r) = q
      BY <1>1 DEF Refused
    <2>2. Alike(r, p, {"failed"}) /\ p.failed = r.failed \cup UrlsOf({r.cand})
      BY <1>0, FailingFields
    <2>3. {r.cand} \subseteq Candidates
      BY <1>1 DEF CandHolds, RunTyped
    <2>4. p.failed \subseteq Urls /\ Catalog[r.cand].url \in p.failed
      BY <2>2, <2>3, UrlsThere DEF RunTyped
    <2> HIDE DEF p
    <2>5. RunTyped(p)
      BY <2>2, <2>4, TypedAlike
    <2>6. /\ IsRun(q) /\ q.at = r.how /\ q.cand = None /\ q.id = 0
          /\ \A f \in RunFields \ {"at", "cand", "id"} : q[f] = p[f]
      BY <2>5 DEF RunTyped, IsRun, RunFields, None
    <2> HIDE DEF q
    <2>7. RunTyped(q)
      <3>1. /\ q.on = p.on /\ q.tried = p.tried /\ q.offered = p.offered /\ q.done = p.done
            /\ q.seen = p.seen /\ q.failed = p.failed /\ q.got = p.got
        BY <2>6 DEF RunFields
      <3>2. /\ q.repeats = p.repeats /\ q.count = p.count /\ q.blind = p.blind /\ q.how = p.how
        BY <2>6 DEF RunFields
      <3>3. q.at \in Steps
        BY <1>1, <2>6 DEF Steps
      <3> QED
        BY <1>0, <2>5, <2>6, <3>1, <3>2, <3>3 DEF RunTyped
    <2>8. /\ q.tries = r.tries /\ q.offered = r.offered /\ q.count = r.count
          /\ q.done = r.done /\ q.repeats = r.repeats /\ q.tried = r.tried
          /\ q.failed = p.failed /\ r.failed \subseteq q.failed
      BY <2>2, <2>6 DEF Alike, RunFields
    <2>9. \A c : AtHand(r, c) => Settled(r, q, c)
      BY <2>4, <2>8 DEF AtHand, Settled
    <2>10. RouteHolds(q)
      BY <1>0, <2>8, <2>9, RouteGoesOn
    <2>11. CandHolds(q) /\ q.at \in {"try", "strict", "rescue"}
      BY <1>1, <2>6 DEF CandHolds
    <2> QED
      BY <2>1, <2>7, <2>10, <2>11
  <1>2. ASSUME NEW q, NEW tries, q = [r EXCEPT !.at = "try", !.tries = tries,
                                              !.cand = None, !.id = None],
               tries = <<>> \/ tries = r.tries,
               ~(StockRoute /\ r.how \in {"strict", "rescue"})
        PROVE  Right(q)
    <2>1. /\ IsRun(q) /\ q.at = "try" /\ q.cand = None /\ q.id = 0 /\ q.tries = tries
          /\ \A f \in RunFields \ {"at", "cand", "id", "tries"} : q[f] = r[f]
      BY <1>0, <1>2 DEF IsRun, RunFields, None
    <2>2. /\ q.on = r.on /\ q.tried = r.tried /\ q.offered = r.offered /\ q.done = r.done
          /\ q.seen = r.seen /\ q.failed = r.failed /\ q.got = r.got
      BY <2>1 DEF RunFields
    <2>3. /\ q.repeats = r.repeats /\ q.count = r.count /\ q.blind = r.blind /\ q.how = r.how
      BY <2>1 DEF RunFields
    <2>4. RunTyped(q)
      BY <1>0, <2>1, <2>2, <2>3 DEF RunTyped, Steps
    <2>5. CASE StockRoute
      <3>1. \A c : ~AtHand(r, c)
        BY <1>2, <2>5 DEF AtHand
      <3> QED
        BY <1>0, <1>2, <2>1, <2>2, <2>3, <2>4, <3>1, RouteGoesOn DEF CandHolds
    <2>6. CASE ~StockRoute
      <3>1. config.engine = "v2" => q.tries \in Seq(V2Tries)
        BY <1>2, <2>1, NothingToTry DEF RouteHolds
      <3> QED
        BY <2>1, <2>4, <2>6, <3>1 DEF RouteHolds, CandHolds
    <2> QED
      BY <2>5, <2>6
  <1>3. CASE /\ ~(StockRoute /\ r.how \in {"strict", "rescue"})
             /\ r.how = "source" /\ r.tries # <<>> /\ Head(r.tries) = "search"
    <2> DEFINE q == [r EXCEPT !.at = "try", !.cand = None, !.id = None]
               tries == r.tries
    <2>1. Refused(r) = q
      BY <1>3 DEF Refused
    <2>2. q = [r EXCEPT !.at = "try", !.tries = tries, !.cand = None, !.id = None]
      BY <1>0 DEF IsRun, RunFields
    <2> HIDE DEF q
    <2> QED
      BY <1>2, <1>3, <2>1, <2>2
  <1>4. CASE /\ ~(StockRoute /\ r.how \in {"strict", "rescue"})
             /\ ~(r.how = "source" /\ r.tries # <<>> /\ Head(r.tries) = "search")
    <2> DEFINE tries == <<>>
               q == [r EXCEPT !.at = "try", !.tries = tries, !.cand = None, !.id = None]
    <2>1. Refused(r) = q
      BY <1>4 DEF Refused
    <2>2. q = [r EXCEPT !.at = "try", !.tries = tries, !.cand = None, !.id = None]
          /\ tries = <<>>
      OBVIOUS
    <2> HIDE DEF q, tries
    <2> QED
      BY <1>2, <1>4, <2>1, <2>2
  <1> QED
    BY <1>1, <1>3, <1>4

\* A new attachment of a strict choice repeats nothing that came before it.
LEMMA AppendFresh ==
    ASSUME ImageInv, run.at = "upload", Len(media) < MaxMedia,
           media' = Append(media, Attachment(run)), usage' = usage
    PROVE  /\ MediaTyped' /\ StrictIsFresh'
           /\ Len(media') = Len(media) + 1 /\ Len(media) + 1 \in 0..MaxMedia
  <1> DEFINE x == Attachment(run)
  <1>1. /\ x \in Attachments /\ x.cand = run.cand /\ x.how = run.how /\ x.blind = run.blind
    BY DEF Attachment, Attachments, ImageInv, Fits, RunTyped
  <1> HIDE DEF x
  <1>2. media' = Append(media, x) /\ media \in Seq(Attachments)
    BY DEF x, ImageInv, MediaTyped
  <1>3. /\ media' \in Seq(Attachments) /\ Len(media') = Len(media) + 1
        /\ DOMAIN media = 1..Len(media) /\ DOMAIN media' = 1..(Len(media) + 1)
        /\ Len(media) \in Nat
        /\ \A m \in 1..Len(media) : media'[m] = media[m]
        /\ media'[Len(media) + 1] = x
    BY <1>1, <1>2, AppendProperties, LenProperties
  <1>4. Len(media) + 1 \in 0..MaxMedia /\ Len(media) + 1 <= MaxMedia
    BY <1>3, MediaAssumption
  <1>5. StrictIsFresh'
    <2> SUFFICES ASSUME NEW n \in DOMAIN media', media'[n].how = "strict"
                 PROVE  LET c == Catalog[media'[n].cand]
                        IN  /\ \A u \in usage : u.upto < n =>
                                  u.asset # c.asset /\ u.content # c.content
                            /\ \A m \in 1..(n - 1) :
                                 /\ media'[m].credited /\ media'[m].cand # None
                                 /\ Catalog[media'[m].cand].asset = c.asset
                                 => media'[n].blind
      BY DEF StrictIsFresh, Shows
    <2>1. CASE n \in 1..Len(media)
      <3>1. media'[n] = media[n] /\ \A m \in 1..(n - 1) : media'[m] = media[m]
        BY <1>3, <2>1
      <3> QED
        BY <1>3, <2>1, <3>1 DEF ImageInv, StrictIsFresh, Shows
    <2>2. CASE n = Len(media) + 1
      <3>1. Fresh(run.cand, run.blind) /\ ~ContentUsed(Catalog[run.cand].content)
        BY <1>1, <1>3, <2>2 DEF ImageInv, Fits, FreshHolds
      <3>2. \A m \in 1..(n - 1) : m \in DOMAIN media /\ media'[m] = media[m]
        BY <1>3, <2>2
      <3> QED
        BY <1>1, <1>3, <2>2, <3>1, <3>2
           DEF Fresh, UsedBefore, UsedHere, InWordPress, ContentUsed
    <2> QED
      BY <1>3, <2>1, <2>2
  <1> QED
    BY <1>3, <1>4, <1>5 DEF MediaTyped

\* An attachment changes: only the last one may gain a credit.
LEMMA ChangeFresh ==
    ASSUME ImageInv, NEW i \in DOMAIN media, NEW x \in Attachments,
           x.cand = media[i].cand, x.how = media[i].how, x.blind = media[i].blind,
           x.credited => media[i].credited \/ i = Len(media),
           media' = [media EXCEPT ![i] = x], usage' = usage
    PROVE  MediaTyped' /\ StrictIsFresh' /\ Len(media') = Len(media)
  <1>1. /\ media \in Seq(Attachments) /\ Len(media) <= MaxMedia
        /\ DOMAIN media = 1..Len(media) /\ Len(media) \in Nat
    BY LenProperties DEF ImageInv, MediaTyped
  <1>2. /\ media' \in Seq(Attachments) /\ Len(media') = Len(media)
        /\ DOMAIN media' = DOMAIN media
        /\ \A m \in DOMAIN media : media'[m] = IF m = i THEN x ELSE media[m]
    BY <1>1, ExceptSeq, LenProperties
  <1>3. \A m \in DOMAIN media : /\ media'[m].cand = media[m].cand /\ media'[m].how = media[m].how
                                /\ media'[m].blind = media[m].blind
                                /\ media'[m].credited => media[m].credited \/ m = Len(media)
    BY <1>2
  <1>4. \A n \in DOMAIN media : \A m \in 1..(n - 1) : m \in DOMAIN media /\ m # Len(media)
    BY <1>1
  <1>5. StrictIsFresh'
    BY <1>1, <1>2, <1>3, <1>4 DEF ImageInv, StrictIsFresh, Shows
  <1> QED
    BY <1>1, <1>2, <1>5 DEF MediaTyped

Suits(r) == RunTyped(r) /\ CandHolds(r) /\ RouteHolds(r)

LEMMA SuitsAfter ==
    ASSUME NEW r, Suits(r), run' = r, config' = config
    PROVE  RunTyped(run)' /\ CandHolds(run)' /\ RouteHolds(run)'
  <1>1. RunTyped(run)' /\ CandHolds(run)'
    BY DEF Suits, RunTyped, CandHolds, IsRun
  <1>2. RouteHolds(run)'
    BY DEF Suits, RouteHolds, StockRoute, RescueSpent, AtHand
  <1> QED
    BY <1>1, <1>2

\* The next step of the run, which nothing has been refused to.
LEMMA NextSuits ==
    ASSUME NEW r, Suits(r), NEW q, NEW F, Alike(r, q, F), F \subseteq {"at", "id", "unkeyed"},
           r.at \notin {"upload", "credit", "identify", "save"}
             \/ q.at \in {"upload", "credit", "identify", "save"},
           q.at \in Steps \ {"upload"}, q.at = "credit" => r.at = "upload",
           q.at = "record" => r.cand # None, q.id \in 0..MaxMedia
    PROVE  Suits(q)
  <1>1. /\ q.on = r.on /\ q.tried = r.tried /\ q.offered = r.offered /\ q.done = r.done
        /\ q.seen = r.seen /\ q.failed = r.failed /\ q.got = r.got
    BY DEF Alike, RunFields
  <1>2. /\ q.repeats = r.repeats /\ q.count = r.count /\ q.blind = r.blind /\ q.how = r.how
        /\ q.cand = r.cand /\ q.tries = r.tries
    BY DEF Alike, RunFields
  <1>3. RunTyped(q)
    BY <1>1, <1>2 DEF Suits, RunTyped, Alike
  <1>4. CandHolds(q)
    BY <1>2 DEF Suits, CandHolds
  <1>5. RouteHolds(q)
    <2>1. r.count \in Int /\ r.count <= r.count
      BY DEF Suits, RunTyped
    <2>2. \A c : AtHand(r, c) => Settled(r, q, c)
      BY <1>2 DEF AtHand, Settled
    <2> QED
      BY <1>1, <1>2, <2>1, <2>2, RouteGoesOn DEF Suits
  <1> QED
    BY <1>3, <1>4, <1>5 DEF Suits

\* Every step bounds the faults.
LEMMA StepFaults ==
    ASSUME faults \in 0..MaxFaults, MediaNext
    PROVE  faults' \in 0..MaxFaults
  <1>1. MediaNext => Fault \/ Sound
    <2>1. \A blind : Reads(blind) => Fault \/ Sound
      BY DEF Reads
    <2>2. Skips \/ (\E how : Makes(how)) => Sound
      BY DEF Skips, Makes
    <2>3. (\E a \in Articles : Take(a)) \/ ReuseSaved \/ ClearStale \/ FindKeyed \/ ChooseRoute
          => Sound
      BY DEF Take, ReuseSaved, ClearStale, FindKeyed, ChooseRoute
    <2>4. TrySource \/ TryGenerator \/ TryNothing => Sound
      BY <2>2 DEF TrySource, TryGenerator, TryNothing
    <2>5. TryStockV1 \/ SearchAll => Fault \/ Sound
      BY <2>1 DEF TryStockV1, SearchAll
    <2>6. SearchPart \/ StrictDownloadFails \/ RescueDownloadFails => Fault
      BY DEF SearchPart, StrictDownloadFails, RescueDownloadFails
    <2>7. StrictDownload \/ StrictEnds \/ RescueEnds => Fault \/ Sound
      BY DEF StrictDownload, StrictEnds, RescueEnds
    <2>8. RescueDownload => Fault \/ Sound
      BY DEF RescueDownload
    <2>9. UploadFails \/ CreditFails \/ IdentifyFails \/ Dies
          \/ (\E m \in DOMAIN media : Trash(m)) => Fault
      BY DEF UploadFails, CreditFails, IdentifyFails, Dies, Trash
    <2>10. Upload \/ Credit \/ Identify \/ Save \/ Create \/ Record => Sound
      BY DEF Upload, Credit, Identify, Save, Create, Record
    <2> QED
      BY <2>3, <2>4, <2>5, <2>6, <2>7, <2>8, <2>9, <2>10 DEF MediaNext
  <1> QED
    BY <1>1, FaultsStay

\* Steps that begin a run or choose for it what to do.
LEMMA PrepareStep ==
    ASSUME MediaInv, ImageInv, faults' \in 0..MaxFaults,
           \/ \E a \in Articles : Take(a)
           \/ ReuseSaved \/ ClearStale \/ FindKeyed \/ ChooseRoute \/ TryNothing \/ Dies
    PROVE  ImageInv'
  <1>0. /\ RunTyped(run) /\ RouteHolds(run) /\ IsRun(run)
        /\ run.at # "idle" => run.on \in Articles
    BY DEF ImageInv, Fits, RunTyped, MediaInv, RunHolds
  <1>1. ASSUME NEW a \in Articles, Take(a) PROVE ImageInv'
    BY <1>1, TakesFits, FitsMoves DEF Take
  <1>2. CASE ReuseSaved
    <2>1. Saved \in 0..MaxMedia /\ row[run.on].meta \in Candidates \cup {None}
      BY <1>0, <1>2 DEF ReuseSaved, Saved, ImageInv, TablesTyped, Rows
    <2>2. Fits(With(run, Saved, row[run.on].meta))
      BY <1>0, <2>1, WithFits DEF RunTyped
    <2> QED
      BY <1>2, <2>2, FitsMoves DEF ReuseSaved
  <1>3. ASSUME NEW id \in 0..MaxMedia, NEW q, Fits(q), run' = q,
               row' = [row EXCEPT ![run.on].media = id, ![run.on].meta = None],
               UNCHANGED <<config, media, post, usage>>, run.at # "idle"
        PROVE  ImageInv'
    <2>1. row' \in [Articles -> Rows]
      BY <1>0, <1>3 DEF ImageInv, TablesTyped, Rows
    <2>2. MediaTyped' /\ TablesTyped' /\ StrictIsFresh'
      BY <1>3, <2>1 DEF ImageInv, MediaTyped, TablesTyped, StrictIsFresh, Shows
    <2>3. FreshHolds(run)'
      BY <1>3 DEF Fits, FreshHolds, Fresh, UsedBefore, UsedHere, InWordPress, ContentUsed
    <2>4. RunTyped(run)' /\ CandHolds(run)' /\ RouteHolds(run)'
      BY <1>3, SuitsAfter DEF Fits, Suits
    <2> QED
      BY <2>2, <2>3, <2>4 DEF ImageInv, Fits
  <1>4. CASE ClearStale
    <2>1. None \in 0..MaxMedia
      BY MediaAssumption DEF None
    <2>2. /\ row' = [row EXCEPT ![run.on].media = None, ![run.on].meta = None]
          /\ UNCHANGED <<config, media, post, usage>> /\ run.at # "idle" /\ run' = run
      BY <1>4 DEF ClearStale
    <2> QED
      BY <1>3, <2>1, <2>2 DEF ImageInv
  <1>5. CASE FindKeyed
    <2> DEFINE id == Min(Keyed(run.on))
    <2>1. id \in Keyed(run.on)
      BY <1>0, <1>5, FoundIsKeyed DEF FindKeyed
    <2>2. id \in DOMAIN media
      BY <2>1 DEF Keyed
    <2>3. id \in 0..MaxMedia
      BY <2>2, LenProperties, MediaAssumption DEF ImageInv, MediaTyped
    <2> DEFINE q == With(run, id, None)
    <2>4. Fits(q)
      BY <1>0, <2>3, WithFits DEF RunTyped
    <2>5. /\ row' = [row EXCEPT ![run.on].media = id, ![run.on].meta = None]
          /\ UNCHANGED <<config, media, post, usage>> /\ run.at # "idle" /\ run' = q
      BY <1>5 DEF FindKeyed
    <2> HIDE DEF id, q
    <2> QED
      BY <1>3, <2>3, <2>4, <2>5
  <1>6. CASE ChooseRoute
    <2> DEFINE q == [run EXCEPT !.at = "try", !.tries = Route]
    <2>1. Goes(q) /\ run.at = "prepare"
      BY <1>6 DEF ChooseRoute
    <2>2. /\ IsRun(q) /\ q.at = "try" /\ q.tries = Route
          /\ \A f \in RunFields \ {"at", "tries"} : q[f] = run[f]
      BY <1>0 DEF IsRun, RunFields
    <2> HIDE DEF q
    <2>3. RunTyped(q)
      BY <1>0, <2>2, TypedAlike DEF Alike, Steps
    <2>4. q.tried = run.tried /\ q.done = run.done /\ q.failed = run.failed
          /\ q.repeats = run.repeats /\ \A c : ~AtHand(run, c)
      BY <2>1, <2>2 DEF RunFields, AtHand
    <2>5. RouteHolds(q)
      BY <1>0, <2>2, <2>4, RouteBegins DEF RouteHolds, ImageInv, TablesTyped
    <2>6. CandHolds(q) /\ FreshHolds(q)
      BY <2>2 DEF CandHolds, FreshHolds
    <2> QED
      BY <2>1, <2>3, <2>5, <2>6, FitsMoves DEF Fits
  <1>7. CASE TryNothing
    BY <1>0, <1>7, ImagelessFits, FitsMoves DEF TryNothing, RunTyped
  <1>8. CASE Dies
    BY <1>8, IdleFits, FitsMoves DEF Dies
  <1> QED
    BY <1>1, <1>2, <1>4, <1>5, <1>6, <1>7, <1>8

\* Steps that upload, credit, key and save the image.
LEMMA UploadStep ==
    ASSUME MediaInv, ImageInv, faults' \in 0..MaxFaults,
           Upload \/ UploadFails \/ Credit \/ CreditFails \/ Identify \/ IdentifyFails
    PROVE  ImageInv'
  <1>0. /\ RunTyped(run) /\ CandHolds(run) /\ RouteHolds(run) /\ IsRun(run) /\ Suits(run)
        /\ run.at # "idle" => run.on \in Articles
    BY DEF ImageInv, Fits, RunTyped, Suits, MediaInv, RunHolds
  <1>1. ASSUME NEW q, Suits(q), q.at \notin {"upload", "credit"}, run' = q,
               MediaTyped', StrictIsFresh', UNCHANGED <<config, row, post, usage>>
        PROVE  ImageInv'
    <2>1. TablesTyped'
      BY <1>1 DEF ImageInv, TablesTyped
    <2>2. RunTyped(run)' /\ CandHolds(run)' /\ RouteHolds(run)'
      BY <1>1, SuitsAfter
    <2>3. FreshHolds(run)'
      BY <1>1 DEF FreshHolds
    <2> QED
      BY <1>1, <2>1, <2>2, <2>3 DEF ImageInv, Fits
  <1>2. CASE Upload
    <2> DEFINE q == [run EXCEPT !.at = "credit", !.id = Len(media) + 1]
    <2>1. /\ run.at = "upload" /\ Len(media) < MaxMedia /\ usage' = usage /\ config' = config
          /\ media' = Append(media, Attachment(run)) /\ row' = row /\ post' = post /\ run' = q
      BY <1>2 DEF Upload
    <2>2. /\ IsRun(q) /\ q.at = "credit" /\ q.id = Len(media) + 1
          /\ \A f \in RunFields \ {"at", "id"} : q[f] = run[f]
      BY <1>0 DEF IsRun, RunFields
    <2> HIDE DEF q
    <2>3. /\ MediaTyped' /\ StrictIsFresh' /\ Len(media') = Len(media) + 1
          /\ Len(media) + 1 \in 0..MaxMedia
      BY <2>1, AppendFresh
    <2>4. Suits(q)
      BY <1>0, <2>1, <2>2, <2>3, NextSuits DEF Alike, Steps
    <2>5. TablesTyped'
      BY <2>1 DEF ImageInv, TablesTyped
    <2>6. RunTyped(run)' /\ CandHolds(run)' /\ RouteHolds(run)'
      BY <2>1, <2>4, SuitsAfter
    <2>7. FreshHolds(run)'
      BY <2>1, <2>2, <2>3 DEF FreshHolds
    <2> QED
      BY <2>3, <2>5, <2>6, <2>7 DEF ImageInv, Fits
  <1>3. CASE UploadFails
    <2>1. /\ run.at = "upload" /\ UNCHANGED <<config, row, post, usage>> /\ run' = Refused(run)
          /\ media' = media \/ (Len(media) < MaxMedia /\ media' = Append(media, Attachment(run)))
      BY <1>3 DEF UploadFails
    <2>2. Suits(Refused(run)) /\ Refused(run).at \notin {"upload", "credit"}
      BY <1>0, <2>1, RefusedFits DEF Suits
    <2>3. MediaTyped' /\ StrictIsFresh'
      <3>1. CASE media' = media
        BY <2>1, <3>1 DEF ImageInv, MediaTyped, StrictIsFresh, Shows
      <3>2. CASE Len(media) < MaxMedia /\ media' = Append(media, Attachment(run))
        BY <2>1, <3>2, AppendFresh
      <3> QED
        BY <2>1, <3>1, <3>2
    <2> QED
      BY <1>1, <2>1, <2>2, <2>3
  <1>4. CASE Credit
    <2> DEFINE x == [media[run.id] EXCEPT !.credited = (run.cand # None)]
               q == [run EXCEPT !.at = "identify"]
    <2>1. /\ media' = [media EXCEPT ![run.id] = x] /\ UNCHANGED <<config, row, post, usage>>
          /\ run' = q /\ run.at = "credit"
      BY <1>4 DEF Credit
    <2>2. run.id \in DOMAIN media /\ run.id = Len(media)
      BY <2>1 DEF MediaInv, RunHolds, ImageInv, Fits, FreshHolds
    <2>3. media[run.id] \in Attachments
      BY <2>2, ElementOfSeq, LenProperties DEF ImageInv, MediaTyped
    <2>4. /\ x \in Attachments /\ x.cand = media[run.id].cand
          /\ x.how = media[run.id].how /\ x.blind = media[run.id].blind
      BY <2>3 DEF Attachments
    <2>5. /\ IsRun(q) /\ q.at = "identify" /\ \A f \in RunFields \ {"at"} : q[f] = run[f]
      BY <1>0 DEF IsRun, RunFields
    <2> HIDE DEF x, q
    <2>6. MediaTyped' /\ StrictIsFresh'
      BY <2>1, <2>2, <2>4, ChangeFresh
    <2>7. q.id \in 0..MaxMedia
      BY <1>0, <2>5 DEF RunTyped, RunFields
    <2>8. Suits(q)
      BY <1>0, <2>1, <2>5, <2>7, NextSuits DEF Alike, Steps
    <2> QED
      BY <1>1, <2>1, <2>5, <2>6, <2>8
  <1>5. CASE CreditFails
    <2>1. run.at = "credit" /\ Goes(Refused(run))
      BY <1>5 DEF CreditFails
    <2>2. Suits(Refused(run)) /\ Refused(run).at \notin {"upload", "credit"}
      BY <1>0, <2>1, RefusedFits DEF Suits
    <2>3. Fits(Refused(run))
      BY <2>2 DEF Suits, Fits, FreshHolds
    <2> QED
      BY <2>1, <2>3, FitsMoves
  <1>6. CASE Identify
    <2> DEFINE x == [media[run.id] EXCEPT !.key = run.on]
               q == [run EXCEPT !.at = "save"]
    <2>1. /\ media' = [media EXCEPT ![run.id] = x] /\ UNCHANGED <<config, row, post, usage>>
          /\ run' = q /\ run.at = "identify"
      BY <1>6 DEF Identify
    <2>2. run.id \in DOMAIN media /\ run.on \in Articles
      BY <1>0, <2>1 DEF MediaInv, RunHolds
    <2>3. media[run.id] \in Attachments
      BY <2>2, ElementOfSeq, LenProperties DEF ImageInv, MediaTyped
    <2>4. /\ x \in Attachments /\ x.cand = media[run.id].cand
          /\ x.how = media[run.id].how /\ x.blind = media[run.id].blind
          /\ x.credited = media[run.id].credited
      BY <2>2, <2>3 DEF Attachments
    <2>5. /\ IsRun(q) /\ q.at = "save" /\ \A f \in RunFields \ {"at"} : q[f] = run[f]
      BY <1>0 DEF IsRun, RunFields
    <2> HIDE DEF x, q
    <2>6. MediaTyped' /\ StrictIsFresh'
      BY <2>1, <2>2, <2>4, ChangeFresh
    <2>7. q.id \in 0..MaxMedia
      BY <1>0, <2>5 DEF RunTyped, RunFields
    <2>8. Suits(q)
      BY <1>0, <2>1, <2>5, <2>7, NextSuits DEF Alike, Steps
    <2> QED
      BY <1>1, <2>1, <2>5, <2>6, <2>8
  <1>7. CASE IdentifyFails
    <2> DEFINE q == [run EXCEPT !.at = "save", !.unkeyed = TRUE]
    <2>1. Goes(q) /\ run.at = "identify"
      BY <1>7 DEF IdentifyFails
    <2>2. /\ IsRun(q) /\ q.at = "save" /\ \A f \in RunFields \ {"at", "unkeyed"} : q[f] = run[f]
      BY <1>0 DEF IsRun, RunFields
    <2> HIDE DEF q
    <2>3. q.id \in 0..MaxMedia
      BY <1>0, <2>2 DEF RunTyped, RunFields
    <2>4. Suits(q)
      BY <1>0, <2>1, <2>2, <2>3, NextSuits DEF Alike, Steps
    <2>5. Fits(q)
      BY <2>2, <2>4 DEF Suits, Fits, FreshHolds
    <2> QED
      BY <2>1, <2>5, FitsMoves
  <1> QED
    BY <1>2, <1>3, <1>4, <1>5, <1>6, <1>7

\* Steps that end a run in the tables.
LEMMA TableStep ==
    ASSUME MediaInv, ImageInv, faults' \in 0..MaxFaults,
           Save \/ Create \/ Record \/ \E m \in DOMAIN media : Trash(m)
    PROVE  ImageInv'
  <1>0. /\ RunTyped(run) /\ CandHolds(run) /\ RouteHolds(run) /\ IsRun(run) /\ Suits(run)
        /\ run.at # "idle" => run.on \in Articles
    BY DEF ImageInv, Fits, RunTyped, Suits, MediaInv, RunHolds
  <1>1. ASSUME NEW q, Fits(q), q.at \notin {"upload", "credit"}, run' = q,
               media' = media, config' = config, StrictIsFresh', TablesTyped'
        PROVE  ImageInv'
    <2>1. RunTyped(run)' /\ CandHolds(run)' /\ RouteHolds(run)'
      BY <1>1, SuitsAfter DEF Suits, Fits
    <2>2. FreshHolds(run)' /\ MediaTyped'
      BY <1>1 DEF FreshHolds, ImageInv, MediaTyped
    <2> QED
      BY <1>1, <2>1, <2>2 DEF ImageInv, Fits
  <1>2. CASE Save
    <2> DEFINE q == IF run.unkeyed THEN IdleRun ELSE With(run, run.id, run.cand)
    <2>1. /\ row' = [row EXCEPT ![run.on].media = run.id, ![run.on].meta = run.cand]
          /\ UNCHANGED <<config, media, post, usage>> /\ run.at = "save" /\ run' = q
      BY <1>2 DEF Save
    <2>2. /\ run.on \in Articles /\ run.id \in 0..MaxMedia /\ run.cand \in Candidates \cup {None}
      BY <1>0, <2>1 DEF RunTyped
    <2>3. Fits(IdleRun) /\ Fits(With(run, run.id, run.cand))
      BY <2>2, IdleFits, WithFits
    <2>4. IdleRun.at = "idle" /\ With(run, run.id, run.cand).at = "create"
      BY DEF With, IdleRun
    <2>5. Fits(q) /\ q.at \notin {"upload", "credit"}
      BY <2>3, <2>4
    <2> HIDE DEF q
    <2>6. row' \in [Articles -> Rows]
      BY <2>1, <2>2 DEF ImageInv, TablesTyped, Rows
    <2>7. TablesTyped' /\ StrictIsFresh'
      BY <2>1, <2>6 DEF ImageInv, TablesTyped, StrictIsFresh, Shows
    <2> QED
      BY <1>1, <2>1, <2>5, <2>7
  <1>3. CASE Create
    <2> DEFINE p == [run EXCEPT !.at = "record"]
               q == IF run.cand = None THEN IdleRun ELSE p
    <2>1. /\ post' = [post EXCEPT ![run.on] = run.id]
          /\ row' = [row EXCEPT ![run.on].due = FALSE]
          /\ UNCHANGED <<config, media, usage>> /\ run.at = "create" /\ run' = q
      BY <1>3 DEF Create
    <2>2. /\ run.on \in Articles /\ run.id \in 0..MaxMedia
      BY <1>0, <2>1 DEF RunTyped
    <2>3. /\ IsRun(p) /\ p.at = "record" /\ \A f \in RunFields \ {"at"} : p[f] = run[f]
      BY <1>0 DEF IsRun, RunFields
    <2> HIDE DEF p
    <2>4. p.id \in 0..MaxMedia
      BY <2>2, <2>3 DEF RunFields
    <2>5. ASSUME run.cand # None PROVE Fits(p)
      <3>1. Suits(p)
        BY <1>0, <2>1, <2>3, <2>4, <2>5, NextSuits DEF Alike, Steps
      <3> QED
        BY <2>3, <3>1 DEF Suits, Fits, FreshHolds
    <2>6. Fits(q) /\ q.at \notin {"upload", "credit"}
      <3>1. IdleRun.at = "idle"
        BY DEF IdleRun
      <3> QED
        BY <2>3, <2>5, <3>1, IdleFits
    <2> HIDE DEF q
    <2>7. row' \in [Articles -> Rows] /\ post' \in [Articles -> 0..MaxMedia]
      BY <2>1, <2>2 DEF ImageInv, TablesTyped, Rows
    <2>8. TablesTyped' /\ StrictIsFresh'
      BY <2>1, <2>7 DEF ImageInv, TablesTyped, StrictIsFresh, Shows
    <2> QED
      BY <1>1, <2>1, <2>6, <2>8
  <1>4. CASE Record
    <2> DEFINE x == [asset |-> Catalog[run.cand].asset, upto |-> Len(media),
                     content |-> IF config.engine = "v1" THEN NoContent
                                 ELSE Catalog[run.cand].content]
    <2>1. /\ usage' = usage \cup {x} /\ run' = IdleRun
          /\ UNCHANGED <<config, media, row, post>> /\ run.at = "record"
      BY <1>4 DEF Record
    <2>2. run.cand \in Candidates
      BY <1>0, <2>1 DEF RunTyped, CandHolds
    <2>3. Len(media) \in 0..MaxMedia /\ DOMAIN media = 1..Len(media) /\ Len(media) \in Nat
      BY LenProperties, MediaAssumption DEF ImageInv, MediaTyped
    <2>4. /\ x \in Uses /\ x.upto = Len(media)
          /\ config.engine = "v1" => x.content = NoContent
      BY <2>2, <2>3 DEF Uses, Assets, Contents
    <2> HIDE DEF x
    <2>5. TablesTyped'
      BY <2>1, <2>4 DEF ImageInv, TablesTyped
    <2>6. StrictIsFresh'
      <3>1. \A n \in DOMAIN media : ~(x.upto < n)
        BY <2>3, <2>4
      <3>2. ASSUME NEW n \in DOMAIN media, media[n].how = "strict"
            PROVE  LET c == Catalog[media[n].cand]
                   IN  /\ \A u \in usage' : u.upto < n => u.asset # c.asset /\ u.content # c.content
                       /\ \A m \in 1..(n - 1) :
                            media[m].credited /\ Shows(m, c.asset) => media[n].blind
        BY <2>1, <3>1, <3>2 DEF ImageInv, StrictIsFresh
      <3> QED
        BY <2>1, <3>2 DEF StrictIsFresh, Shows
    <2>7. IdleRun.at = "idle"
      BY DEF IdleRun
    <2> QED
      BY <1>1, <2>1, <2>5, <2>6, <2>7, IdleFits
  <1>5. ASSUME NEW m \in DOMAIN media, Trash(m) PROVE ImageInv'
    <2> DEFINE x == [media[m] EXCEPT !.live = FALSE]
    <2>1. /\ media' = [media EXCEPT ![m] = x]
          /\ UNCHANGED <<config, row, post, usage, run>>
      BY <1>5 DEF Trash
    <2>2. media[m] \in Attachments
      BY ElementOfSeq, LenProperties DEF ImageInv, MediaTyped
    <2>3. /\ x \in Attachments /\ x.cand = media[m].cand
          /\ x.how = media[m].how /\ x.blind = media[m].blind
          /\ x.credited = media[m].credited
      BY <2>2 DEF Attachments
    <2> HIDE DEF x
    <2>4. MediaTyped' /\ StrictIsFresh' /\ Len(media') = Len(media)
      BY <2>1, <2>3, ChangeFresh
    <2>5. DOMAIN media' = DOMAIN media
          /\ \A n \in DOMAIN media : media'[n] = IF n = m THEN x ELSE media[n]
      BY <2>1, Changed DEF MediaInv, Tables
    <2>6. \A asset : InWordPress(asset)' <=> InWordPress(asset)
      BY <2>3, <2>5 DEF InWordPress
    <2>7. FreshHolds(run)'
      BY <2>1, <2>4, <2>6
         DEF ImageInv, Fits, FreshHolds, Fresh, UsedBefore, UsedHere, ContentUsed
    <2>8. RunTyped(run)' /\ CandHolds(run)' /\ RouteHolds(run)'
      BY <1>0, <2>1, SuitsAfter
    <2>9. TablesTyped'
      BY <2>1 DEF ImageInv, TablesTyped
    <2> QED
      BY <2>4, <2>7, <2>8, <2>9 DEF ImageInv, Fits
  <1> QED
    BY <1>2, <1>3, <1>4, <1>5

LEMMA ImageInvariant == Spec => []ImageInv
  <1>1. Init => ImageInv
    <2> SUFFICES ASSUME Init PROVE ImageInv
      OBVIOUS
    <2>1. /\ media = <<>> /\ run = IdleRun /\ post = [a \in Articles |-> None] /\ usage = {}
          /\ row = [a \in Articles |-> [media |-> None, meta |-> None, due |-> TRUE]]
          /\ config \in Configs /\ faults = 0
      BY DEF Init, MediaInit
    <2>2. media \in Seq(Attachments) /\ Len(media) = 0 /\ DOMAIN media = {}
      BY <2>1, EmptySeq, LenProperties
    <2>3. 0 \in 0..MaxMedia /\ 0 \in 0..MaxFaults /\ 0 <= MaxMedia
      BY MediaAssumption
    <2>4. MediaTyped /\ StrictIsFresh
      BY <2>2, <2>3 DEF MediaTyped, StrictIsFresh
    <2>5. TablesTyped
      BY <2>1, <2>3 DEF TablesTyped, Rows, None
    <2> QED
      BY <2>1, <2>4, <2>5, IdleFits DEF ImageInv
  <1>2. MediaInv /\ ImageInv /\ [Next]_vars => ImageInv'
    <2> SUFFICES ASSUME MediaInv, ImageInv, [Next]_vars PROVE ImageInv'
      OBVIOUS
    <2>1. CASE Publishes
      <3>1. MediaNext
        BY <2>1 DEF Publishes
      <3>2. faults' \in 0..MaxFaults
        BY <3>1, StepFaults DEF ImageInv, TablesTyped
      <3> QED
        BY <3>1, <3>2, PrepareStep, TriesStep, StockV1Step, SearchesStep, StrictStep,
           StrictEndsStep, RescueStep, RescueEndsStep, UploadStep, TableStep DEF MediaNext
    <2>2. CASE UNCHANGED mediaVars
      <3>1. /\ config' = config /\ media' = media /\ row' = row /\ post' = post
            /\ usage' = usage /\ run' = run /\ faults' = faults
        BY <2>2 DEF mediaVars
      <3> QED
        BY <3>1, FitsMoves DEF ImageInv, TablesTyped, Goes
    <2> QED
      BY <2>1, <2>2 DEF Next, Writes, EndProcess, vars
  <1> QED
    BY <1>1, <1>2, MediaInvariant, PTL DEF Spec

\* Strict selection never repeats an image, through crashes, refused uploads and
\* attachments found again, for any catalogue and any configurations
\* (search_images, record_image_usage, _prepare_image).
THEOREM StrictNeverRepeats == Spec => []StrictIsFresh
  BY ImageInvariant, PTL DEF ImageInv

\* With rescue on the V2 stock route a generator comes last, for any catalogue, any
\* failures and any budget (rescue_images, _upload_v2_stock_route).
THEOREM GeneratorsComeLast == Spec => []GenerationIsLast
  <1>1. ImageInv => GenerationIsLast
    <2> SUFFICES ASSUME ImageInv, StockRoute, config.rescue, run.tries # <<>>,
                        Head(run.tries) \in {"grok", "openai"}
                 PROVE  RescueSpent(run)
      BY DEF GenerationIsLast, Trying, RescueSpent
    <2>1. run.tries \in Openings \/ RescueSpent(run)
      BY DEF ImageInv, Fits, RouteHolds
    <2>2. run.tries \notin Openings
      <3>1. Head(<<"search">>) = "search" /\ Head(<<"source", "search">>) = "source"
        OBVIOUS
      <3> QED
        BY <3>1 DEF Openings
    <2> QED
      BY <2>1, <2>2
  <1> QED
    BY <1>1, ImageInvariant, PTL

Staged == stage \in {"process", "publish"}

\* The texts, the tables and the run have their types, the run's budget and the
\* attachments their bounds; the next candidate of strict selection and of rescue
\* always exists (rescue_images orders any pool).
THEOREM ArticleTyped == Spec => []TypeOK
  <1>1. TextInv => TextTypeOK
    BY DEF TextInv, TextTypeOK, Well, Jobs
  <1>2. ImageInv => MediaTypeOK
    <2> SUFFICES ASSUME ImageInv PROVE MediaTypeOK
      OBVIOUS
    <2>1. /\ run.on \in Articles \cup {NoArticle} /\ run.at \in Steps
          /\ run.tried \cup run.offered \cup run.done \cup run.seen \subseteq Candidates
          /\ run.failed \cup run.got \subseteq Urls /\ run.repeats \subseteq Assets
          /\ run.count \in 0..RescueLimit /\ run.id \in 0..MaxMedia
      BY DEF ImageInv, Fits, RunTyped
    <2> QED
      BY <2>1 DEF ImageInv, MediaTyped, TablesTyped, MediaTypeOK, Attachments, Rows, Uses
  <1>3. Spec => []Staged
    <2>1. Init => Staged
      BY DEF Init, Staged
    <2>2. Staged /\ [Next]_vars => Staged'
      BY DEF Next, Writes, EndProcess, Publishes, vars, Staged
    <2> QED
      BY <2>1, <2>2, PTL DEF Spec
  <1>4. TextTypeOK /\ MediaTypeOK /\ Staged => TypeOK
    BY DEF TypeOK, Staged
  <1> QED
    BY <1>1, <1>2, <1>3, <1>4, TextInvariant, ImageInvariant, PTL
=============================================================================
