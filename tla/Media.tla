-------------------------------- MODULE Media --------------------------------
(***************************************************************************)
(* The featured image of an article (publishing/service.py _prepare_image, *)
(* publishing/wordpress/publisher.py upload_image, image_search): a saved  *)
(* or keyed attachment is used again; otherwise the configured route tries *)
(* stock images, the source's image and generated ones, uploads the first  *)
(* that can be had, credits it, writes the article's key on it, saves its  *)
(* id, and after the post exists records which stock image was used.       *)
(* Module Publication has all of this as its step PrepareImage.            *)
(*                                                                         *)
(* One publisher works at a time (wp_publisher_lock); it may die at any    *)
(* step.  All uses of an image fall within STOCK_IMAGE_REUSE_WINDOW_DAYS.  *)
(***************************************************************************)
EXTENDS Batch, Integers, FiniteSets, FiniteSetsExt, Sequences

CONSTANTS
    Catalog,       \* stock images a search can find, in strict order, each with
                   \* provider, url, asset (one identity), content (its bytes),
                   \* score, fit (may be chosen strictly), safe (may be rescued)
    Configs,       \* the configurations considered
    StrictLimit,   \* IMAGE_GLOBAL_CANDIDATE_LIMIT
    RescueLimit,   \* IMAGE_EMERGENCY_STOCK_RESCUE_LIMIT
    MaxMedia,      \* bound: attachments
    MaxFaults      \* bound: crashes and failures

Candidates == DOMAIN Catalog
None == 0          \* no candidate, no attachment
Urls == {Catalog[c].url : c \in Candidates}
Assets == {Catalog[c].asset : c \in Candidates}
Contents == {Catalog[c].content : c \in Candidates}
NoContent == "unknown"

ASSUME MediaAssumption ==
    /\ StrictLimit \in Nat /\ RescueLimit \in Nat
    /\ MaxMedia \in Nat /\ MaxFaults \in Nat
    /\ Len(Catalog) \in Nat /\ Candidates = 1..Len(Catalog)
    /\ \A c \in Candidates : /\ Catalog[c].score \in Nat /\ Catalog[c].fit \in BOOLEAN
                             /\ Catalog[c].content # NoContent
    /\ \A cf \in Configs :
         /\ cf.engine \in {"v1", "v2"} /\ cf.primary \in {"grok", "openai"}
         /\ cf.mode \in {"openai", "hybrid", "stock", "source"}
         /\ cf.priority \in {"stock_first", "source_first", "openai_only", "grok_only"}

VARIABLES
    config,   \* the configuration, fixed for a behaviour
    media,    \* attachments of WordPress in the order of their ids
    row,      \* per article: saved media, its metadata, and whether it is posted
    post,     \* per article: the attachment its post shows
    usage,    \* the local record of used stock images
    run,      \* the article being published and how far its image is
    faults

mediaVars == <<config, media, row, post, usage, run, faults>>

Hows == {"strict", "rescue", "source", "generated"}
Steps == {"idle", "prepare", "try", "search", "strict", "rescue", "upload",
          "credit", "identify", "save", "create", "record"}

IdleRun == [on |-> NoArticle, at |-> "idle", tries |-> <<>>, blind |-> FALSE,
            offered |-> {}, tried |-> {}, broken |-> FALSE, exhausted |-> FALSE,
            failed |-> {}, repeats |-> {}, seen |-> {}, got |-> {}, done |-> {},
            count |-> 0, cand |-> None, how |-> "generated", id |-> None,
            unkeyed |-> FALSE]

MediaTypeOK ==
    /\ config \in Configs
    /\ media \in Seq([cand : Candidates \cup {None}, how : Hows, credited : BOOLEAN,
                      key : Articles \cup {NoArticle}, live : BOOLEAN, blind : BOOLEAN])
    /\ Len(media) <= MaxMedia
    /\ row \in [Articles -> [media : 0..MaxMedia, meta : Candidates \cup {None},
                             due : BOOLEAN]]
    /\ post \in [Articles -> 0..MaxMedia]
    /\ usage \subseteq [asset : Assets, content : Contents \cup {NoContent}, upto : 0..MaxMedia]
    /\ run.on \in Articles \cup {NoArticle} /\ run.at \in Steps
    /\ run.tried \cup run.offered \cup run.done \cup run.seen \subseteq Candidates
    /\ run.failed \cup run.got \subseteq Urls /\ run.repeats \subseteq Assets
    /\ run.count \in 0..RescueLimit /\ run.id \in 0..MaxMedia
    /\ faults \in 0..MaxFaults

MediaInit ==
    /\ config \in Configs
    /\ media = <<>> /\ usage = {} /\ faults = 0
    /\ row = [a \in Articles |-> [media |-> None, meta |-> None, due |-> TRUE]]
    /\ post = [a \in Articles |-> None]
    /\ run = IdleRun

(* ------------------------- what was used before ------------------------ *)

\* The local record, which can always be read here; load_image_usage takes an
\* unreadable file for an empty one.
UsedHere(asset) == \E u \in usage : u.asset = asset
ContentUsed(x) == \E u \in usage : u.content = x

\* WordPress's attachments of the window, the trashed ones too, name an image in
\* their credit.
InWordPress(asset) == \E m \in DOMAIN media : /\ media[m].credited
                                              /\ Catalog[media[m].cand].asset = asset

\* An unreadable history is an empty one: candidates count as fresh.  Mutant:
\* only the local record counts.
UsedBefore_LocalOnly(asset, blind) == UsedHere(asset)
UsedBefore(asset, blind) == UsedHere(asset) \/ (~blind /\ InWordPress(asset))

Fresh(c, blind) == ~UsedBefore(Catalog[c].asset, blind)

\* All deliveries of one image.
Group(c) == {d \in Candidates : Catalog[d].asset = Catalog[c].asset}
UrlsOf(C) == {Catalog[c].url : c \in C}

(* --------------------------- strict selection -------------------------- *)

\* The candidates strict selection may still try: fresh ones that meet their
\* threshold, of an image that is not known to repeat another by its content.
Plan(r) == {c \in r.offered \ r.tried : /\ Catalog[c].fit /\ Fresh(c, r.blind)
                                        /\ Catalog[c].asset \notin r.repeats}
NextStrict(r) == Min(Plan(r))

StrictOver(r) == Plan(r) = {} \/ Cardinality(r.tried) >= StrictLimit

\* Another image with the same content was downloaded before.
SeenElsewhere(r, c) == \E d \in r.seen \ Group(c) : Catalog[d].content = Catalog[c].content

(* ------------------------------- rescue -------------------------------- *)

\* Why strict selection did not take a candidate, as far as rescue may overlook it.
Soft(r, c) == {s \in {"below", "recent", "content"} :
    \/ s = "below" /\ ~Catalog[c].fit
    \/ s = "recent" /\ ~Fresh(c, r.blind)
    \/ s = "content" /\ Catalog[c].asset \in r.repeats}

Tier(r, c) == CASE Soft(r, c) = {}         -> 0
                [] "content" \in Soft(r, c) -> 4
                [] Soft(r, c) = {"below"}   -> 1
                [] Soft(r, c) = {"recent"}  -> 2
                [] OTHER                    -> 3

\* Safe candidates with an address that has not failed, rejected for a soft reason
\* or never attempted.  Mutant: those left over by the strict budget are missed.
Pool_SoftOnly(r) == {c \in r.offered \ r.done : /\ Catalog[c].safe
                                                /\ Catalog[c].url \notin r.failed
                                                /\ Soft(r, c) # {}}
Pool(r) == {c \in r.offered \ r.done : /\ Catalog[c].safe
                                       /\ Catalog[c].url \notin r.failed
                                       /\ Soft(r, c) # {} \/ c \notin r.tried}

\* By tier, then by score, then by the order of the providers.
Before(r, c, d) == \/ Tier(r, c) < Tier(r, d)
                   \/ /\ Tier(r, c) = Tier(r, d)
                      /\ \/ Catalog[c].score > Catalog[d].score
                         \/ Catalog[c].score = Catalog[d].score /\ c < d
NextRescue(r) == CHOOSE c \in Pool(r) : \A d \in Pool(r) \ {c} : Before(r, c, d)

RescueOver(r) == ~config.rescue \/ Pool(r) = {} \/ r.count >= RescueLimit

(* -------------------------------- routes ------------------------------- *)

StockRoute == /\ config.engine = "v2" /\ config.mode \in {"hybrid", "stock"}
              /\ config.priority \in {"stock_first", "source_first"}

When(condition, try) == IF condition THEN <<try>> ELSE <<>>

\* What is tried in which order, where the first image that can be made is the
\* only one uploaded; on the V2 stock route the search goes on to later images.
Route ==
    LET sourceFirst == When(config.priority = "source_first", "source")
        openai == When(config.fallback, "openai")
    IN  CASE StockRoute -> sourceFirst \o <<"search">>
          [] ~StockRoute /\ (config.mode = "openai" \/ config.priority = "openai_only") -> <<"openai">>
          [] ~StockRoute /\ config.mode # "openai" /\ config.priority = "grok_only" -> <<"grok">> \o openai
          [] config.mode = "source" /\ config.priority \in {"stock_first", "source_first"} -> <<"source">> \o openai
          [] ~StockRoute /\ config.mode = "stock" /\ config.priority \in {"stock_first", "source_first"}
               -> sourceFirst \o <<"stock">> \o openai
          [] OTHER -> sourceFirst \o <<"stock", config.primary>>
                      \o When(config.source /\ config.priority = "stock_first", "source")
                      \o When(config.fallback /\ config.primary # "openai", "openai")

\* After search and rescue on the V2 stock route: where a featured image is
\* required both generators, otherwise what the normal gate allows.
Allowed(r) == ~config.after \/ r.exhausted \/ config.onError
RouteAfter(r) ==
    CASE config.required -> <<"grok", "openai">>
      [] ~config.required /\ config.mode = "stock" -> When(Allowed(r) /\ config.fallback, "openai")
      [] OTHER -> When(Allowed(r), config.primary)
                  \o When(config.source /\ config.priority = "stock_first", "source")
                  \o When(Allowed(r) /\ config.fallback /\ config.primary # "openai", "openai")

(* ------------------------------- actions ------------------------------- *)

Fault == faults < MaxFaults /\ faults' = faults + 1
Sound == UNCHANGED faults

\* A step of the run alone.
Goes(r) == run' = r /\ UNCHANGED <<config, media, row, post, usage>>

\* No image: the post goes out without one.
Imageless(r) == [IdleRun EXCEPT !.on = r.on, !.at = "create"]
With(r, id, cand) == [IdleRun EXCEPT !.on = r.on, !.at = "create", !.id = id, !.cand = cand]

Take(a) ==
    /\ run.at = "idle" /\ row[a].due
    /\ Goes([IdleRun EXCEPT !.on = a, !.at = "prepare"]) /\ Sound

Saved == row[run.on].media

\* The saved attachment is still there: it is used again with its metadata.
ReuseSaved ==
    /\ run.at = "prepare" /\ Saved # None /\ media[Saved].live
    /\ Goes(With(run, Saved, row[run.on].meta)) /\ Sound

\* The saved attachment is gone: the row forgets it (clear_media).
ClearStale ==
    /\ run.at = "prepare" /\ Saved # None /\ ~media[Saved].live
    /\ row' = [row EXCEPT ![run.on].media = None, ![run.on].meta = None]
    /\ UNCHANGED <<config, media, post, usage, run>> /\ Sound

\* The attachments that carry the key of an article and are not in the trash;
\* mutant: looked up among credited attachments.
Keyed_Credited(a) == {m \in DOMAIN media : media[m].key = a /\ media[m].live /\ media[m].credited}
Keyed(a) == {m \in DOMAIN media : media[m].key = a /\ media[m].live}

\* An attachment with the article's key is found: it is saved and used, but what
\* was known of it is lost.
FindKeyed ==
    /\ run.at = "prepare" /\ Saved = None /\ Keyed(run.on) # {}
    /\ row' = [row EXCEPT ![run.on].media = Min(Keyed(run.on)), ![run.on].meta = None]
    /\ run' = With(run, Min(Keyed(run.on)), None)
    /\ UNCHANGED <<config, media, post, usage>> /\ Sound

ChooseRoute ==
    /\ run.at = "prepare" /\ Saved = None /\ Keyed(run.on) = {}
    /\ Goes([run EXCEPT !.at = "try", !.tries = Route]) /\ Sound

Trying(try) == run.at = "try" /\ run.tries # <<>> /\ Head(run.tries) = try
Skips == Goes([run EXCEPT !.tries = Tail(@)]) /\ Sound
Uploads(r, cand, how) == [r EXCEPT !.at = "upload", !.cand = cand, !.how = how]
Makes(how) == Goes(Uploads([run EXCEPT !.tries = Tail(@)], None, how)) /\ Sound

TrySource ==
    /\ Trying("source")
    /\ Skips \/ (config.source /\ Makes("source"))

\* A generator that is not configured, fails or gives an unusable image is passed
\* over.
TryGenerator ==
    /\ Trying("grok") \/ Trying("openai")
    /\ Skips \/ Makes("generated")

TryNothing == run.at = "try" /\ run.tries = <<>> /\ Goes(Imageless(run)) /\ Sound

\* Reading WordPress's history may be off or fail; then it counts as empty.
Reads(blind) == \/ blind = ~config.history /\ Sound
                \/ config.history /\ blind /\ Fault

\* V1: the best fresh image of each provider in turn until one can be downloaded.
V1Providers == {"pexels", "pixabay"}
V1Left(r, blind) == {c \in Candidates : /\ Catalog[c].provider \in V1Providers
                                        /\ Catalog[c].fit /\ Fresh(c, blind)
                                        /\ \A d \in r.tried : /\ d < c
                                             /\ Catalog[d].provider # Catalog[c].provider}
TryStockV1 ==
    /\ Trying("stock")
    /\ \E blind \in BOOLEAN :
         /\ Reads(blind)
         /\ LET left == V1Left(run, blind)
                read == [run EXCEPT !.blind = blind]
            IN  IF left = {} THEN Goes([run EXCEPT !.tries = Tail(@), !.tried = {}])
                ELSE \/ Goes(Uploads([read EXCEPT !.tries = <<>>], Min(left), "strict"))
                     \/ Goes([run EXCEPT !.tried = @ \cup {Min(left)}])

\* V2: all providers are asked, of which some may fail and give nothing or a part.
SearchAll ==
    /\ Trying("search")
    /\ \E blind \in BOOLEAN :
         /\ Reads(blind)
         /\ Goes([run EXCEPT !.at = "strict", !.tries = <<>>, !.blind = blind,
                             !.offered = Candidates])

SearchPart ==
    /\ Trying("search") /\ Fault
    /\ \E part \in SUBSET Candidates :
         Goes([run EXCEPT !.at = "strict", !.tries = <<>>, !.blind = ~config.history,
                          !.offered = part, !.broken = TRUE])

Failing(r, C) == [r EXCEPT !.failed = @ \cup UrlsOf(C)]

\* The next strict candidate cannot be downloaded, and its provider may count as
\* unavailable.
StrictDownloadFails ==
    /\ run.at = "strict" /\ ~StrictOver(run) /\ Fault
    /\ \E broken \in {run.broken, TRUE} :
         LET c == NextStrict(run)
         IN  Goes([Failing(run, {c}) EXCEPT !.tried = @ \cup {c}, !.broken = broken])

\* It is downloaded: content used before or seen under another identity rules
\* out the image; otherwise it is converted, which may fail, and uploaded.
StrictDownload ==
    /\ run.at = "strict" /\ ~StrictOver(run)
    /\ LET c == NextStrict(run)
           asset == Catalog[c].asset
           r == [run EXCEPT !.tried = @ \cup {c}, !.got = @ \cup {Catalog[c].url}]
       IN  CASE ContentUsed(Catalog[c].content) ->
                  Goes([r EXCEPT !.repeats = @ \cup {asset}, !.seen = @ \cup {c}]) /\ Sound
             [] ~ContentUsed(Catalog[c].content) /\ SeenElsewhere(run, c) ->
                  Goes([Failing(r, Group(c) \cap run.offered) EXCEPT !.repeats = @ \cup {asset}]) /\ Sound
             [] OTHER -> \/ Goes(Uploads(r, c, "strict")) /\ Sound
                         \/ Goes([Failing(r, {c}) EXCEPT !.seen = @ \cup {c}]) /\ Fault

StrictEnds ==
    /\ run.at = "strict" /\ StrictOver(run)
    /\ Goes([run EXCEPT !.at = "rescue", !.seen = {},
                        !.exhausted = ~run.broken /\ Plan(run) = {}]) /\ Sound

Attempted(r, c) == [r EXCEPT !.count = @ + 1, !.done = @ \cup {c}]

RescueDownloadFails ==
    /\ run.at = "rescue" /\ ~RescueOver(run) /\ Fault
    /\ LET c == NextRescue(run)
       IN  /\ Catalog[c].url \notin run.got
           /\ Goes(Failing(Attempted(run, c), {c}))

\* Content that turns out to have been used before moves the candidate to the
\* last tier; if another comes before it now, that one is taken up first.
RescueDownload ==
    /\ run.at = "rescue" /\ ~RescueOver(run)
    /\ LET c == NextRescue(run)
           worn == ContentUsed(Catalog[c].content)
           back == [run EXCEPT !.count = @ + 1, !.got = @ \cup {Catalog[c].url},
                               !.repeats = IF worn THEN @ \cup {Catalog[c].asset} ELSE @]
           r == [back EXCEPT !.done = @ \cup {c}]
       IN  IF worn /\ Catalog[c].asset \notin run.repeats /\ NextRescue(back) # c
           THEN Goes(back) /\ Sound
           ELSE \/ Goes(Uploads(r, c, "rescue")) /\ Sound
                \/ Goes(Failing(r, {c})) /\ Fault

RescueEnds ==
    /\ run.at = "rescue" /\ RescueOver(run)
    /\ Goes([run EXCEPT !.at = "try", !.tries = RouteAfter(run)]) /\ Sound

\* An upload or a required credit failed: within the V2 stock search the address
\* counts as failed and the search goes on, after the source's image it begins;
\* elsewhere the post goes without an image.
Refused(r) ==
    CASE StockRoute /\ r.how \in {"strict", "rescue"} ->
           [Failing(r, {r.cand}) EXCEPT !.at = r.how, !.cand = None, !.id = None]
      [] r.how = "source" /\ r.tries # <<>> /\ Head(r.tries) = "search" ->
           [r EXCEPT !.at = "try", !.cand = None, !.id = None]
      [] OTHER -> [r EXCEPT !.at = "try", !.tries = <<>>, !.cand = None, !.id = None]

Attachment(r) == [cand |-> r.cand, how |-> r.how, credited |-> FALSE,
                  key |-> NoArticle, live |-> TRUE, blind |-> r.blind]

Upload ==
    /\ run.at = "upload" /\ Len(media) < MaxMedia
    /\ media' = Append(media, Attachment(run))
    /\ run' = [run EXCEPT !.at = "credit", !.id = Len(media) + 1]
    /\ UNCHANGED <<config, row, post, usage>> /\ Sound

\* The upload fails, or only its answer is lost.
UploadFails ==
    /\ run.at = "upload" /\ Fault
    /\ \/ media' = media
       \/ Len(media) < MaxMedia /\ media' = Append(media, Attachment(run))
    /\ run' = Refused(run)
    /\ UNCHANGED <<config, row, post, usage>>

\* Alternative text and credit are written; only a stock image requires it.
Credit ==
    /\ run.at = "credit"
    /\ media' = [media EXCEPT ![run.id].credited = (run.cand # None)]
    /\ run' = [run EXCEPT !.at = "identify"]
    /\ UNCHANGED <<config, row, post, usage>> /\ Sound

\* Mutant: a stock image without its credit is used all the same.
CreditFails_Kept ==
    /\ run.at = "credit" /\ run.cand # None /\ Fault
    /\ Goes([run EXCEPT !.at = "identify"])
CreditFails ==
    /\ run.at = "credit" /\ run.cand # None /\ Fault
    /\ Goes(Refused(run))

\* The article's key is written on the attachment; a failure is kept for later.
Identify ==
    /\ run.at = "identify"
    /\ media' = [media EXCEPT ![run.id].key = run.on]
    /\ run' = [run EXCEPT !.at = "save"]
    /\ UNCHANGED <<config, row, post, usage>> /\ Sound

IdentifyFails ==
    /\ run.at = "identify" /\ Fault
    /\ Goes([run EXCEPT !.at = "save", !.unkeyed = TRUE])

\* The row takes the attachment; after a failed key the attempt ends here.
Save ==
    /\ run.at = "save"
    /\ row' = [row EXCEPT ![run.on].media = run.id, ![run.on].meta = run.cand]
    /\ run' = IF run.unkeyed THEN IdleRun ELSE With(run, run.id, run.cand)
    /\ UNCHANGED <<config, media, post, usage>> /\ Sound

\* The post exists; whatever happens now, no further one is made.
Create ==
    /\ run.at = "create"
    /\ post' = [post EXCEPT ![run.on] = run.id]
    /\ row' = [row EXCEPT ![run.on].due = FALSE]
    /\ run' = IF run.cand = None THEN IdleRun ELSE [run EXCEPT !.at = "record"]
    /\ UNCHANGED <<config, media, usage>> /\ Sound

\* The local record of used images; V1 does not know the content.
Record ==
    /\ run.at = "record"
    /\ usage' = usage \cup {[asset |-> Catalog[run.cand].asset, upto |-> Len(media),
                             content |-> IF config.engine = "v1" THEN NoContent
                                         ELSE Catalog[run.cand].content]}
    /\ run' = IdleRun
    /\ UNCHANGED <<config, media, row, post>> /\ Sound

\* The process dies or a database call raises: the attempt is over.
Dies == run.at # "idle" /\ Fault /\ Goes(IdleRun)

\* Somebody moves an attachment to the trash.
Trash(m) ==
    /\ media[m].live /\ Fault
    /\ media' = [media EXCEPT ![m].live = FALSE]
    /\ UNCHANGED <<config, row, post, usage, run>>

MediaNext ==
    \/ \E a \in Articles : Take(a)
    \/ ReuseSaved \/ ClearStale \/ FindKeyed \/ ChooseRoute
    \/ TrySource \/ TryGenerator \/ TryNothing \/ TryStockV1
    \/ SearchAll \/ SearchPart
    \/ StrictDownloadFails \/ StrictDownload \/ StrictEnds
    \/ RescueDownloadFails \/ RescueDownload \/ RescueEnds
    \/ Upload \/ UploadFails \/ Credit \/ CreditFails
    \/ Identify \/ IdentifyFails \/ Save \/ Create \/ Record
    \/ Dies \/ \E m \in DOMAIN media : Trash(m)

MediaSpec == MediaInit /\ [][MediaNext]_mediaVars

(* ------------------------------ properties ----------------------------- *)

Shows(m, asset) == media[m].cand # None /\ Catalog[media[m].cand].asset = asset

\* Strict selection never repeats an image: neither one that was recorded as used
\* before nor, by its content, the same picture under another identity, and one
\* that another attachment was credited with only if WordPress's history was off
\* or unreadable then - although the local record is lost with every crash after
\* the post and with every attachment found again by its key (search_images,
\* record_image_usage, _prepare_image).
StrictIsFresh ==
    \A n \in DOMAIN media : media[n].how = "strict" =>
      LET c == Catalog[media[n].cand]
      IN  /\ \A u \in usage : u.upto < n => u.asset # c.asset /\ u.content # c.content
          /\ \A m \in 1..(n - 1) :
               media[m].credited /\ Shows(m, c.asset) => media[n].blind

\* On the V2 stock route with rescue, a generator is asked only when rescue has
\* spent its budget or every safe candidate that was offered has an address that
\* failed (rescue_images, _upload_v2_stock_route).
GenerationIsLast ==
    (StockRoute /\ config.rescue /\ (Trying("grok") \/ Trying("openai")))
    => \/ run.count >= RescueLimit
       \/ \A c \in run.offered : Catalog[c].safe => Catalog[c].url \in run.failed

\* A post never shows a stock image whose credit was not saved, through failed
\* uploads, crashes and attachments found again (_upload_prepared_image).
CreditedMedia ==
    \A a \in Articles : LET m == post[a]
                        IN  m # None /\ media[m].cand # None => media[m].credited

\* However often an article is taken up again, at most one attachment outside the
\* trash carries its key (_prepare_image).
OneKeyedMedia ==
    \A a \in Articles : \A m, n \in DOMAIN media :
      media[m].key = a /\ media[n].key = a /\ media[m].live /\ media[n].live => m = n
=============================================================================
