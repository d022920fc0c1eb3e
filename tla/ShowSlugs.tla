------------------------------ MODULE ShowSlugs ------------------------------
(***************************************************************************)
(* The slugs of shows (db.rs, import.rs), by which pages link to them: a   *)
(* show gets one when it is first imported, from its name, and it must be  *)
(* free, although shows of one name may be imported side by side and TMDB  *)
(* may rename a show at any time.                                          *)
(*                                                                         *)
(* A slug is the sequence of its words, which slugify joins by dashes.  A  *)
(* word that is a number is that number.                                   *)
(*                                                                         *)
(* An import fetches the show, then opens a transaction and probes one     *)
(* candidate after another, each in a snapshot of its own, for one that no *)
(* other show has; the upsert follows in a statement of its own.  What it  *)
(* inserts is seen by others once it commits, but the unique indexes make  *)
(* them wait for it.                                                       *)
(***************************************************************************)
EXTENDS Naturals, Sequences

CONSTANTS
  Shows,     \* tmdb_ids
  Names,     \* the names TMDB gives, as sequences of words
  NoSlug,    \* of a show that is not imported
  Tasks,     \* requests, background refreshes and refresh-catalog tasks
  MayFail    \* whether a TMDB call or a statement may fail

ASSUME ShowsAreIds  == Shows \subseteq Nat
ASSUME NoSlugIsNone == NoSlug \notin Names
ASSUME FailBoolean  == MayFail \in BOOLEAN

VARIABLES
  name,     \* TMDB's name of each show
  slug,     \* show.slug
  task      \* the imports under way

vars == <<name, slug, task>>

-----------------------------------------------------------------------------

(* slugify, or the tmdb_id if that leaves nothing.                         *)
Base(x, words) == IF words = <<>> THEN <<x>> ELSE words

(* The candidates: "foo", "foo-100", "foo-100-2", "foo-100-3", ...         *)
Candidate(w) ==
  LET t == task[w]
  IN  t.base \o CASE t.n = 0 -> <<>>
                  [] t.n = 1 -> <<t.show>>
                  [] OTHER   -> <<t.show, t.n>>

Idle == [pc |-> "idle"]

Imported == {x \in Shows : slug[x] # NoSlug}

Init ==
  /\ name \in [Shows -> Names]
  /\ slug = [x \in Shows |-> NoSlug]
  /\ task = [w \in Tasks |-> Idle]

(* TMDB renames a show.                                                    *)
Rename(x) ==
  /\ \E words \in Names : name' = [name EXCEPT ![x] = words]
  /\ UNCHANGED <<slug, task>>

Start(w, x, probing) ==
  /\ task[w].pc = "idle"
  /\ task' = [task EXCEPT ![w] = [pc |-> "fetch", show |-> x, probing |-> probing]]
  /\ UNCHANGED <<name, slug>>

(* ensure_show_imported: somebody opens "tmdb:x", which is not imported.   *)
FirstView(w, x) == x \notin Imported /\ Start(w, x, TRUE)

(* A cold show is viewed, or refresh-catalog comes to it: import_show once *)
(* more.                                                                   *)
Reimport(w, x) == x \in Imported /\ Start(w, x, TRUE)

(* A show past its TTL is viewed: refresh_show, which does not probe, as   *)
(* the slug it passes is "only used on insert".                            *)
Refresh(w, x) == x \in Imported /\ Start(w, x, FALSE)

(* Mutant of Fetch: a first import probes no more than a refresh does.     *)
FetchUnprobed(w) ==
  /\ task[w].pc = "fetch"
  /\ LET x == task[w].show
     IN  task' = [task EXCEPT ![w] =
                    [pc |-> "upsert", show |-> x, base |-> Base(x, name[x]), n |-> 0]]
  /\ UNCHANGED <<name, slug>>

(* TmdbClient::get_show, before the transaction.                           *)
Fetch(w) ==
  /\ task[w].pc = "fetch"
  /\ LET x == task[w].show
     IN  task' = [task EXCEPT ![w] =
                    [pc   |-> IF task[w].probing THEN "probe" ELSE "upsert",
                     show |-> x, base |-> Base(x, name[x]), n |-> 0]]
  /\ UNCHANGED <<name, slug>>

(* The shows other than w's own that have w's candidate.                   *)
Holders(w) == {y \in Shows \ {task[w].show} : slug[y] = Candidate(w)}

(* One turn of the loop of pick_unique_slug.                               *)
Probe(w) ==
  /\ task[w].pc = "probe"
  /\ task' = IF Holders(w) # {} THEN [task EXCEPT ![w].n = @ + 1]
                                ELSE [task EXCEPT ![w].pc = "upsert"]
  /\ UNCHANGED <<name, slug>>

(* Another import has upserted the same show, or inserted the same slug,   *)
(* and not yet committed.                                                  *)
Blocked(w) ==
  \E v \in Tasks \ {w} :
    /\ task[v].pc = "open"
    /\ \/ task[v].show = task[w].show
       \/ {task[v].show, task[w].show} \cap Imported = {} /\ Candidate(v) = Candidate(w)

(* upsert_show.  The insert of a new row fails if by now another show has  *)
(* the slug; the update of an old one leaves its slug alone.               *)
Upsert(w) ==
  /\ task[w].pc = "upsert"
  /\ ~Blocked(w)
  /\ task' = IF task[w].show \in Imported \/ Holders(w) = {}
             THEN [task EXCEPT ![w].pc = "open"]
             ELSE [task EXCEPT ![w] = Idle]
  /\ UNCHANGED <<name, slug>>

(* Mutant of Commit: the upsert updates the slug, too.                     *)
CommitRenamed(w) ==
  /\ task[w].pc = "open"
  /\ slug' = [slug EXCEPT ![task[w].show] = Candidate(w)]
  /\ task' = [task EXCEPT ![w] = Idle]
  /\ UNCHANGED name

(* The seasons are written and the transaction commits.                    *)
Commit(w) ==
  /\ task[w].pc = "open"
  /\ slug' = IF task[w].show \in Imported THEN slug
             ELSE [slug EXCEPT ![task[w].show] = Candidate(w)]
  /\ task' = [task EXCEPT ![w] = Idle]
  /\ UNCHANGED name

(* A call of TMDB or a statement fails, or the instance is lost.           *)
Fail(w) ==
  /\ MayFail
  /\ task[w].pc # "idle"
  /\ task' = [task EXCEPT ![w] = Idle]
  /\ UNCHANGED <<name, slug>>

Import(w) == Fetch(w) \/ Probe(w) \/ Upsert(w) \/ Commit(w)

Next ==
  \/ \E x \in Shows : Rename(x)
  \/ \E w \in Tasks, x \in Shows : FirstView(w, x) \/ Reimport(w, x) \/ Refresh(w, x)
  \/ \E w \in Tasks : Import(w) \/ Fail(w)

Spec == Init /\ [][Next]_vars

(* Imports that run are carried on, every show keeps being opened, and     *)
(* TMDB and the database do not fail for ever: in the end, an import that  *)
(* is given up is one that lost the race for its slug.                     *)
LiveSpec ==
  /\ Spec
  /\ \A w \in Tasks : SF_vars(Import(w))
  /\ \A x \in Shows : SF_vars(\E w \in Tasks : FirstView(w, x))
  /\ <>[][\A w \in Tasks : Fail(w) => Import(w)]_vars

-----------------------------------------------------------------------------

(* "existing links stay valid" (db.rs:298): a slug that leads to a show    *)
(* leads to this show and to no other from then on, whatever the show is   *)
(* renamed to, however often it is imported again and whichever other      *)
(* shows of its name are imported meanwhile.                               *)
LinksStay ==
  [][\A x \in Imported, y \in Shows : slug'[y] = slug[x] <=> y = x]_slug

(* A show that is being opened gets in, even if others of its name, or     *)
(* named like its suffixed slug, take its candidates between the probe and *)
(* the insert and make its import fail.                                    *)
EveryShowGetsIn == \A x \in Shows : <>(x \in Imported)

=============================================================================
