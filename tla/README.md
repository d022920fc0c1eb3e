# FillerKiller, specified

FillerKiller is a site where people vote on which episodes of a show are
filler. A Rust service (`api/`, axum and sqlx on Postgres) imports shows from
TMDB, takes votes, keeps a tally per episode, derives skip guides from the
tallies, lets people write and like guides of their own, and remembers what each
viewer has watched; a React client (`web/`) shows it all. Several instances of
the service may run on one database.

This directory holds TLA+ models of that code, the configurations with which
TLC checks them on small instances, and proofs, checked by TLAPS, that the most
important results hold for every number of users, episodes, connections and so
on. `PROJECT.json` lists the components, the runs, which lines of the code each
definition stands for, the hazards the properties are aimed at, and what the
checks found.

To repeat a check: `tlc -config VoteTally_race.cfg VoteTallyMC.tla`; a proof:
`tlapm VoteTallyProofs.tla`.

## 1. Inventory

| Component | State it keeps | Operations | What is hard about it |
|---|---|---|---|
| Votes and the tally (`db.rs` 904-1050; `main.rs` 1070-1135; migrations 0003, 0005) | `vote`, `episode_score` | `put_vote`, `delete_vote`, account deletion, `recompute-scores` | a trigger recounts, waits for a lock, writes; deadlocks between multi-row transactions |
| Filler scoring (`scoring.rs`) | none | label of a tally, valid reason tags | boundaries: the five-vote floor, a lead of exactly 10 % |
| Derived skip guide, preview card (`scoring.rs`, `og.rs`) | none | `build_skip_guide`, `OgStats` | two pieces of code must count alike; unknown runtimes; specials |
| Catalog import (`import.rs`, `tmdb.rs`, `db.rs` 90-130, 286-495; 0011) | `show`, `season`, `episode` | first import, claim, incremental and full refresh, `refresh-catalog` | TMDB changes between the fetches; imports overlap; votes arrive while rows are rewritten; a deferred constraint |
| Written guides (`guides.rs`, migrations 0007, 0008) | `skip_guide`, `skip_guide_entry`, `skip_guide_like` | create, edit, delete, like, unlike | check, then write; a counter kept by a trigger; cascades |
| Accounts and sessions (`auth.rs`, `db.rs` 500-660, 0011; the round trip: `oauth.rs`, `main.rs` 1278-1434) | `app_user`, `oauth_identity`, the cookies: session, OAuth state, page to return to | OAuth login and callback, rename, logout, delete account | racing first logins; revocation crossing an answer that sets a cookie; the tabs of one browser share the cookies of their logins |
| Watch progress (`main.rs` 760-790, 1130-1170; `db.rs` 852-901; `ShowPage.tsx`, `EpisodeRow.tsx`) | `episode_watch`; the page's rows and counter | mark, unmark, load a season | optimistic toggles, reverts, answers out of order |
| Vote responses, page data | none | reads of several statements | one response may mix two moments |
| Slugs and show lookup (`db.rs` 30-90, `import.rs` 15-40, 136-190; 0004) | `show.slug` | first import, import once more, refresh, lookup by slug | probe, then insert, under a unique index; shows of one name; renames |
| Image proxy, its cache, the popular list (`main.rs` 530-720, `db.rs` 1053-1116; 0015) | `image_cache`, the pins in it | answer from the cache or TMDB, store, pin, prune | concurrent fills; pins and pruning are two statements without a transaction, and ride on every read of the popular list |
| Search, rate limiter, response caching, SEO, card drawing, configuration, telemetry | none, or a library's | | mostly pure |
| Other pages of the client | component state | the editor, the guide checklists, search, account | optimistic toggles, stale answers |
| Deployment, CI | none | schedule the two jobs | outside the code |

**How they meet.** Everything meets in Postgres, by foreign keys and triggers:
a vote, a watch mark, a guide entry hang on an `episode` row that an import may
delete; votes outlive their account (0005) while guides and likes do not (0008);
each vote fires `refresh_episode_score`, each like `refresh_guide_like_count`.
Handlers call `CurrentUser`/`OptionalUser` first, which read the account in a
statement of its own, and then run their own statements. A viewer's request for
a stale show spawns a background import. The client calls the service and
changes its page before the answer arrives.

**What makes each correct.** Votes: one per account and episode, as if requests
were atomic, and a tally that is the recount of the votes. Scoring: nothing that
might be canon is skipped; labels do not flap. Guide and card: the lists
partition the show, modes nest, both count alike. Import: no vote is lost, no
constraint stops it, what it fetched is what is stored, and in the end it
catches up. Written guides: a guide is always one submission as a whole, its
`like_count` right, nothing survives its owner. Accounts: an identity keeps its
account, no account is unreachable, a session works exactly until it is revoked.
The OAuth round trip: the state check refuses exactly the callbacks whose login
was crossed or forgotten, and a sign-in lands where it started. Slugs: a link
that leads to a show leads to it for ever, and every show gets in. Image proxy:
the cache is invisible to a page - an answer is the image asked for, or an error
- it spares the posters that the popular lists agree on, and does not grow for ever.
Watch page: counter and rows agree with the server.

## 2. The modules

Reading order: `Scoring`, `EpisodeLabel`, `VoteBook`, `VoteTally`, then any.

| Module | Models | Uses |
|---|---|---|
| `Scoring` | the pure rules: `ValidReasons`, `Status`, `Placement` | |
| `EpisodeLabel` | one episode's label while votes come and go | `Scoring` |
| `SkipGuide` | `build_skip_guide`, minutes saved, the preview card | `Scoring` |
| `ShowGuide`, `SkipGuideMC` | a show's guide and card while votes on an episode come and go | `EpisodeLabel`, `SkipGuide` |
| `VoteBook` | abstract: what the vote store promises, requests atomic | |
| `VoteTally`, `VoteTallyMC` | the vote store as it is: statements, trigger, locks, job | `Scoring`, `VoteBook` |
| `CatalogImport`, `CatalogImportMC` | one show's import against a changing TMDB | |
| `Guides`, `GuidesMC` | written guides and their likes | |
| `Accounts`, `AccountsMC` | login, session, revocation | |
| `OAuthLogin`, `OAuthLoginMC` | the OAuth round trip of a browser with several tabs | |
| `WatchPage`, `WatchPageMC` | watch marks from the browser to the table | |
| `ShowSlugs`, `ShowSlugsMC` | the slugs of shows imported side by side | |
| `ImageSource` | abstract: what a page sees of the image proxy, no cache | |
| `ImageCache`, `ImageCacheMC` | the proxy with its cache, pins and pruning | `ImageSource` |
| `ShowProofs` | theorems | `EpisodeLabel`, `ShowGuide`, `ShowSlugs` |
| `VoteTallyProofs`, `CatalogImportProofs`, `GuidesProofs`, `AccountsProofs`, `OAuthLoginProofs`, `WatchPageProofs`, `ImageCacheProofs` | theorems | the module of the name |

`ShowGuide` composes `EpisodeLabel` with `SkipGuide`: one run follows a label
through votes and derives the guide from it. `VoteTallyProofs` closes the circle:
the votes of `VoteTally` on any one episode are the votes of `EpisodeLabel`.

**`SkipGuide`.** The rows of a show are a sequence; a list of the guide is first
the set of positions the loop pushes to it (`Pushed`) and then those rows in
broadcast order (`InOrder`), which is unique as no two rows share a slot; the
minutes are a sum over such a set. `ShowGuide` lets the votes of the last row
move and leaves the others alone: `build_skip_guide` reads each row by itself.

**Granularity.** The service runs no explicit transaction except where the
source does (the writes of an import, `resolve_oauth_user`, `create_guide`,
`update_guide`), so every other SQL statement is an action of
its own and any other request may come in between. Inside a statement the
models split what Postgres (READ COMMITTED) lets others interleave with: in
`VoteTally` and `Guides` the write of the row, the trigger's recount, the wait
for the lock on the counter's row, the write of the counter, and the commit; in
`ImageCache`, whose statements are about many rows, the snapshot in which a
statement finds its rows, and its writes. Such a statement passes over a row that
does not meet its condition in the snapshot without locking it, and looks again
at one that does after locking it; as it keeps its locks until it commits, its
writes are one step.
The writes of a transaction that nothing reads in between are one step with its
commit. An `.await` between two statements is a point where the request may also
end (`Fail`): a statement fails, the instance is lost or the client's answer is.

**`VoteTally`.** `tx[w]` is the request a connection serves: `pc`, the request,
the episodes whose score it has `todo`, has `claim`ed (counted) and has
`written`, and what it has `seen`. `CheckEpisode`, `PutVote`, `DeleteVote`,
`DeleteUser` are the statements of `main.rs` and `db.rs`; `Recount` and
`WriteScore` the two halves of `refresh_episode_score`; `DeadlockAbort` is
Postgres's deadlock detector; `StartRecompute` the job. `raced[e]` is history:
the score row of `e` was last written by a transaction that had counted before
some other commit on `e`.

**`CatalogImport`.** An episode is its TMDB id and sits in a slot (season,
number). `Edit` changes TMDB's list at any time. `FetchDetail`, `Plan` (which
seasons look grown), `FetchSeason` are the unlocked fetches; `Begin` takes the
show row's lock; `WriteSeason` is the delete-and-upsert of one season; `Commit`
checks the deferred slot constraint. `Claim` is the conditional UPDATE of
`last_synced_at`, with the exception for cold shows.

**`Guides`.** As `VoteTally`, with `Valid`/`Capped` checks before the write, and
the cascades of account and episode deletion.

**`Accounts`.** `tx[h]` is a login (`ReadIdentity`, `ReadEmail`, then one of
`RefreshProfile`, `Link`, `Create`, then `IssueJwt`) or a request with a cookie
(`Send`, `Authorize`, then the handler's statement). `Answer` delivers the
response, which sets or clears the cookie of the browser. A JWT is its `sub` and
`ver`; `stale` is history: its account was logged out or deleted since the login
that started it.

**`OAuthLogin`.** A login is a number, which stands for its state, its code and
its session. `OauthLogin` sets the cookies `jar.state` and `jar.next`; `Decide`
and `Reload` send the callback with the cookies of that moment (`sent`); the
steps of `oauth_callback` compare the state, trade the code, and set the session
or clear the cookies in the answer. Cookies may expire. `n` and `gone` as they
were when a callback was sent (`saw`, `sawGone`) are history. What account a
session is of is left to `Accounts`, where a login begins with the profile that
the provider gave.

**`ShowSlugs`.** A slug is the sequence of words that `slugify` joins by dashes.
`FirstView`, `Reimport` and `Refresh` are the three ways to an import; `Probe` is
one turn of the loop of `pick_unique_slug`, `Upsert` the statement that waits for,
or fails on, the unique index, `Commit` the end of the transaction. `Rename` is
TMDB.

**`ImageCache`.** A key is a size and a file and stands for the image it names.
`proxy[p]` is a request: the read of the cache, the fetch from TMDB, the store.
`sync[y]` is the task that a read of the popular list spawns, with the list it
works for: `FindMispinned` and `Pin` are the snapshot and the writes of the UPDATE,
`FindExpired` and `Prune` those of the DELETE, with the rows found in `todo`. `Age`
lets a row get past its TTL. `spared` and each task's `keep` are history: a row
that was there when the pins of its list were looked up is kept from when they
take effect until pins that leave it out do. `ImageSource` has requests and
answers only.

**`WatchPage`.** The page's React state (`rows`, `count`, `season`), the GETs and
the PUTs and DELETEs under way, and `episode_watch`. A component that is
unmounted loses its state, while its requests go on and, when answered, act on
what is still mounted (`owner`). A GET reads the viewer's marks and count
(`ReadEpisodes`, `ReadCount`) or, if `OptionalUser` does not recognise the viewer,
none (`ReadAnonymously`). `raced` is history: a load crossed a toggle or was
answered as to a stranger, an answer was lost or another device wrote.

## 3. What is checked

Eleven runs pass, one shows that the code does not do what a comment says of it.

| Run | Instance | Shows |
|---|---|---|
| `skip_guide` | up to 11 voters on one episode of a show with a special and two episodes, all ratings and runtimes the rules tell apart, one tally per label for the others | what an exact tally's label may do: skipped is never possibly canon, one new or retracted vote never swaps verdicts, agreeing never removes one; modes nest, minutes nest, lists partition in order, the card counts as the guide does |
| `votes_race` | 2 accounts, 1 episode, 2 connections, 1 job, failures | `ImplementsVoteBook`; a wrong tally needs a race; a deleted episode leaves nothing |
| `votes_live` | 1 account, 2 episodes, 1 connection, 1 job, fair | every wait and every deadlock ends; the job heals the tally once voting pauses |
| `catalog_race` | 3 episodes, 3 slots in 2 seasons, 1 viewer, failures, removals | constraints hold at commit, what was fetched is stored, votes survive, only an episode that changed season loses its row |
| `catalog_live` | 2 episodes, 2 seasons, a viewer and an operator, fair | imports catch up with TMDB; a cold show gets its rating |
| `guides_race` | an author racing himself and a reader, 3 guides, 2 episodes, cap 1 | guides are whole, nothing dangles, likes wrong only after a race, the cap is exceeded by less than the connections |
| `accounts_race` | 2 people, addresses, accounts, browsers, connections, failures; each account revoked once | sessions exact, logouts revoke, accounts reachable, identities kept |
| `oauth_login` | 2 tabs, 3 logins, 1 reload, one provider that is not configured; pages a, b and one that is not ours (a missing `?next=` acts alike), fair | the state check and the cookies are exact, sign-ins land where they started, every callback is answered |
| `show_slugs` | 3 shows, 2 imports at a time, names "Foo" and "Foo 100", failures, fair | a slug keeps leading to its show and to no other; who loses the race for a slug gets in on a later try |
| `image_cache` | two scenes: 2 requests and a sync over 1 poster in two sizes, and 2 syncs and a request over 2 posters, each with one that is refused; fair | `ImplementsImageSource`; pruning spares what pins hold on to; what is left out of the list goes away |
| `watch_page` | 3 episodes in 2 seasons, 2 toggles and 2 loads at once, counter up to 3 | counter and rows in step except after the named races and answers to a stranger; rows belong to the season |
| `votes_drift` (violation) | 2 votes on one episode | `TallyCurrent`: the later writer's tally misses the earlier vote |

**Why the bounds are enough.** Every race named above is between two requests
(or a request and a job) on one row; a third account, episode or connection adds
states and no new order of two writes to one counter. Two episodes are needed
for a deadlock (two score rows locked in opposite orders), three slots in two
seasons for a renumbering that crosses seasons. Two people and two addresses are
the least with which an address can be taken by another account; two browsers
with two connections let a login, a rename and a logout of one account cross.
Two tabs with three logins let one tab's login be crossed by another's and a
third follow the crossing. Eleven voters reach a lead of exactly the margin, and
of one vote on either side of it. Three shows let "Foo" meet another "Foo" and a
"Foo 100" at once, which takes every suffix `pick_unique_slug` has. Two syncs of
different lists over two posters are the least that unpin each other's while
each takes its own for pinned; two requests for one image are the least that
store it twice. Both at once are too many states, so `image_cache` starts in one
scene or the other and stays in it (`InScene`). The proofs remove
the bounds from the safety results of all modules. Bounds that cut behaviour short are named constants: `MaxVotes`,
`MaxVersion` (revocations per account), `Toggles`, `Loads` and `MaxCount`
(requests under way, counter), `MaxLogins` and `MaxReloads`. Type invariants are
checked by TLC in `votes_race` and `watch_page`; those of the other modules with
proofs are proved. Symmetry is used only in runs without liveness properties;
the temporal properties of such runs (`ImplementsVoteBook`, `IdentityKept`) are
about single steps and name no element of a symmetric set.

**Fairness.** `VoteTally`: strong fairness of each connection's `Progress` -
Tokio polls an accepted request, and Postgres grants a row lock to its waiters
in turn; the job is weakly fair in `votes_live` because `main.rs` says it is run
on a schedule. `CatalogImport`: strong fairness of each import and of `Claim`,
weak fairness of the first view and of the expiry of the TTL: the show keeps
being viewed and time passes. No fairness is assumed of people or of TMDB.
`CatchesUp` further needs that TMDB drops no episode (`MayRemove = FALSE`):
a refresh compares counts, so an addition that comes with a removal goes unseen,
as `import.rs` accepts, until `refresh-catalog` is run; and that no call fails
(`MayFail = FALSE`): a claim marks the show fresh before the refresh runs.
`ShowSlugs`: strong fairness of each import, and of somebody opening each show
that is not in; and imports do not fail for ever for another reason than a
slug that was taken. A failure is told from a step of the import by its effect
(`Fail(w) => Import(w)`), as the two can coincide.
`OAuthLogin`: weak fairness of the service's answer to each tab. `ImageCache`:
time passes (`Age`); the popular list keeps being read and its syncs go on
(weakly fair, as a whole); and of the pin statements that are tried again and
again some succeed, and some of the prunes (strongly fair, each kind as a whole),
though any of them may fail; none of the requests for images.

Deadlock checking is off in `guides_race` and `votes_drift`, where all accounts
or all guides may be gone for good and nothing is left to do.

Every property of a passing run has a mutant: an alternative of one definition,
written just before it in the module ("Mutant of ..."), that a plausible mistake
in that code would produce, and with which TLC finds the property violated.

## 4. What the checks found

* **The tally can stay wrong.** The trigger counts, then waits for the lock on
  the score row, then writes what it counted. Of two overlapping votes on one
  episode the later writer loses the other's (`votes_drift`). 0003:43 promises
  the contrary. The next vote on the episode, or the job, repairs it
  (`DriftNeedsRace`, `HealedWhenQuiet`). The job has the same race: its counts
  come from a snapshot older than the votes committed while it runs.
  `guide_like_refresh` is built alike, so `like_count` can drift the same way,
  with no job to repair it.
* **An import cannot replace a voted episode.** Deleting the row cascades to its
  votes, whose trigger upserts a score row for the deleted episode: a foreign-key
  violation, and the whole refresh fails every time (`VotesForbid`), where
  db.rs:412 expects the votes to go with the row. That is also why no vote is
  ever lost (`VotedKeepRows`).

The promise of db.rs:419, "Rows are never recreated", holds within a season only.
Seasons are written one by one; an episode that moved to a season written later
can lose its row to the one that took its slot, and is inserted again with a new
id. `RecreatedOnlyWhenMoved` states what does hold: nothing else loses its row,
and never one with votes.

Smaller things met on the way, not stated as properties:

* The cap on published guides is said to be exceeded at most "briefly"
  (guides.rs:186); nothing ever takes the excess back. `CapOvershoot` says by
  how much.
* A logout for which the version lookup fails answers 204 and revokes nothing
  (auth.rs:223, main.rs:1510); `LogoutRevokes` names the exception.
* A like is checked against the guide's visibility in a statement of its own
  (main.rs:1262), so a guide unpublished meanwhile still gets it.
* A cold show can be claimed by every viewer until one refresh stored a rating.
* The counter of the show page is to stay in sync "without refetching"
  (EpisodeRow.tsx:26-27); a load that crosses a toggle leaves it off by one until
  the next load.
* `me` shows the address the login came with, even when the account kept its
  old one because another account holds the new.
* "Currently popular posters ... never expire" (main.rs:537), and "every cached
  size variant of those files is pinned" (db.rs:1092), but any read of the
  popular list sets the pins to its own list: one with `?limit=1` unpins the rest
  until the next. And of two syncs that overlap each passes over the rows that
  are right in its snapshot: with a and b pinned, those of the lists {a} and {b}
  unpin each other's poster and both end unpinned, where one after the other
  would leave one of them pinned. `OnlyLeftOutPruned` says what is spared: the
  rows that a list names and no overlapping or later one leaves out.
* `get_show_episodes` takes a viewer whose session it fails to look up, or whose
  session has ended, for nobody (auth.rs:215-226): a 200 with every row unwatched
  and no count, beside which the page keeps the counter it has
  (ShowPage.tsx:76). Rows and counter disagree until the next load; `InStep` names
  the exception. That answer is also `public` (response.rs:28), so that a cache on
  the way may hand it to a viewer who is signed in.
* A denial or a late answer in one tab clears the state cookie of a login that
  another tab has begun, whose callback is then refused (`StateCheckExact`), and
  a login without a usable `?next=` can land on the page that an abandoned login
  asked for (`LandsWhereStarted` names the case).
* An import that loses the race for a slug fails as a whole, after all its calls
  of TMDB, and is tried again only when the show is opened again.

## 5. What is proved

All theorems hold for every value of the constants that satisfies the modules'
named assumptions: accounts, guides and the catalog are finite where something
is counted, ids and sentinels differ, flags are Boolean.

**`ShowProofs`**, in three parts. *The label* (any `MaxVotes`): `NeverSkipsCanon`,
`RankingIsEnough`, `VerdictsNeverSwap`, `AgreeingNeverHurts`. The lemmas say that
a verdict is the one value that leads both others by more than the margin, and
that there is at most one; the rest is linear arithmetic on three counts.

*The guide* (any list of rows with distinct slots): `StricterSkipsMore`,
`StricterSavesMore`, `ListsShareEpisodes`, `CardMatchesGuide`. The sets that the
modes push nest by the definition of `Placement`; the work is in getting from
sets to what the code returns. For the minutes that is a sum, which is
recursive. The library's induction theorems cannot be used, as they take an
operator; but that the proper subsets of a finite set are well-founded is a fact
without one, from which `SetInduction` follows for a *set* of subsets. With it a sum
is shown to be the number of its `Units` (`SumIsCount`), so that a sum over more
rows is no smaller (`SumGrows`). For the lists it is the sort: the number of rows
before a row is one-to-one on rows with distinct slots, so it fills 1 to n and its
inverse is a sorted order (`OrderExists`), and any sorted order takes each row once
(`InOrderHolds`). The percentage is linear arithmetic about a quotient.

*The link*: `SlugsUnique`, `LinksKeepLeading`. `LinksStay` is about one step; what
it needs is that the slug being committed is free. `SlugsInv` says so from the
upsert on: whoever has upserted a new show has a slug that no other show has
(`OpenIsFree`) and no other open transaction is about to insert (`OpenIsAlone`), for
the unique index makes the second one wait; and no two imported shows share a
slug (`OneShowPerSlug`). Neither the probe nor TMDB's names play a part: the probe
matters to liveness only.

**`VoteTallyProofs`**: `TypeCorrect`, `DriftOnlyFromRaces`, `DroppedStaysGone`,
and `Refinement`, that `VoteTally` implements `VoteBook`. `DriftNeedsRace` alone
is not inductive: at a commit, the tally written is what the transaction had
*seen*. `IInv` adds what its locks protect (`TxOK`): the votes it counted are the
votes it would see now unless it has `missed` a commit, the episode and the
account of a vote being written still exist, and (`EraseExcludesVoting`) no
account is deleted while one of its votes is being written. Each commit then is
one step of the book, every other step a stutter. `VotesMoveLabels` goes on from
there: a step of the book changes at most one account's slot on one episode, which
moves the recount of that episode by one vote (`OneSlotCounts`), so that for every
episode `VoteTally` implements `EpisodeLabel`, with the recount for its tally and
as many voters as there are accounts.

**`CatalogImportProofs`**: `TypeCorrect`, `SlotsAlwaysSettle`,
`FetchedAlwaysWritten`, `VotesSurviveImports`, for any catalog, any number of
importers and any edits. The invariant: a fetched page is one consistent state
of a season, so of a slot at most one entry was fetched (`GotOK`); a season write
gives its slots to the incoming episodes alone, so the table is free of clashes
after every season and what one page placed the next leaves alone (`WorkOK`);
only one import writes at a time; TMDB's list and the table have no clash.

`RenumberedKeepRows` follows from the same two: a row is displaced only by an
episode that holds its slot in the page, so its own episode is elsewhere.

**`GuidesProofs`**: `TypeCorrect`, `LikesOnlyRace`, `GuidesStayWhole`,
`NothingLeftBehind`, `CapHolds`. As for the votes the invariant says what the
checks have established at each stage of a request (`Stages`), what a
transaction's locks protect (`Holds`) and that it would count now what it has
counted, unless it missed a commit (`Seen`); `Apart` keeps two creations from one
id, and an edit or a like from a guide or an account being deleted. `CapOvershoot`
is not inductive: it needs the guides that requests past the check are *about* to
publish. `Potential(u)` are these and the published ones; it grows only at the
check, which counts fewer than the cap, beside one guide for each other
connection.

**`AccountsProofs`**: `TypeCorrect`, `SessionsStayExact`, `LogoutEndsSession`,
`AccountsStayReachable`, `IdentityStays`. `SessionsExact` speaks of the version an
account has now; it becomes inductive as `SessionsOK`: a session, in a cookie or
inside a request, is current, or stale and *ended for good* - its account is gone
or has a strictly later version, which no later step undoes. `Stages` adds what a
request has done before each stage: a login about to link holds the session of
the account it is about to link to, a logout that answers holds a stale session,
none, or one it could not look up. `WriteStep` and `RevokeStep` carry the two
kinds of steps that write accounts.

**`OAuthLoginProofs`**: `TypeCorrect`, `CookiesTellTheLatest`, `CheckIsExact`,
`SignInLands`. No two tabs are in one login, and the cookies that a callback
carries say of the moment it was sent what `CookiesExact` says of now; the check
compares those.

**`WatchPageProofs`**: `TypeCorrect`, `StaysInStep`, `RowsStayBelonging`. While
nothing has put the page out of step, each toggle under way still has its busy
row, is the only one of its episode, and is either still to change the table or
has just done so (`TogglesOK`, `Sync`); so each step moves the counter and the
expected episodes alike. A load that nothing crosses means that no toggle is
under way and that what it read is what is stored (`LoadsOK`); one whose reader was
not recognised counts as raced, and claims nothing until the next.

**`ImageCacheProofs`**: `TypeCorrect`, `PruningSparesListed` and `Refinement`, that
`ImageCache` implements `ImageSource`. A row holds the image its key names (`RowsOK`);
a request that goes on to TMDB was valid (`RequestsOK`). That a row in `spared` is
pinned is not inductive: it becomes so only by pins that may have skipped the row
long before. `PinsOK` says that a row which the pins under way will hold on to is
there, and pinned or about to be; the pins of another list that take it from them
take it off their `keep` as well. Nothing more can be said of `pinned`, as
overlapping syncs leave it to neither list.

**Only model-checked**: the liveness properties (`EveryRequestEnds`,
`HealedWhenQuiet`, `CatchesUp`, `ColdHeals`, `CallbackAnswered`,
`EveryShowGetsIn`, `LeftOutGoesAway`), which are out of the prover's reach. Every
other property of a passing run is a theorem.

## 6. What is left out

Within the modelled components: wording, names and screen names, dispositions of
guide entries, descriptions, images, the seven-day expiry of a session,
`filler_score` (feeds responses only), the rounding of the card's percentage at an
exact half (the code's f64 product may fall short of it: 23 of 40 gives 57 there
and 58 in `FillerPct`; no property is about such a half), season titles of an import, the one-off
backfill of slugs in migration 0004, the `?limit=` and the statistics of the
popular list, a season that disappears from TMDB altogether, and a change of the show id while `ShowPage`
stays mounted. `WatchPage`'s viewer stays signed in to the page: what it does when a
401 or a sign-out tells it otherwise - it loads the season again, and hides the
toggles and the counter - is left out. `ImageCache` takes TMDB at its word: a body
sent with status 200 counts as the image, while the code also relays and caches
one that is none, as image/jpeg (main.rs:678-701). External code is modelled from
how it is used: Postgres locks, snapshots, cascades and constraint checks, TMDB
and the network.

Not modelled: rate limiting (a configuration of the `governor` library),
Cache-Control headers, SEO rewriting, card drawing, configuration, telemetry and
deployment, which keep no state of their own that changes; search, which is one
stateless call; and for now the responses that combine several reads, and the
other pages of the client.

## 7. Plan

Done: scoring, the derived guide, votes, import, written guides, accounts and the
OAuth round trip, watch page, slugs, image cache; proofs of all their safety
properties. What would come next:

1. `VoteResponse`: what a response that reads the tally and the reasons in two
   statements may claim, composed with `VoteTally` and the row of `EpisodeRow`;
2. the client's other pages: the checklists of `SkipGuidePage` and
   `GuideDetailPage`, the editor's drafts, the like button, search answers out of
   order.
