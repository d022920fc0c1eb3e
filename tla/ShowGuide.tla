------------------------------ MODULE ShowGuide ------------------------------
(***************************************************************************)
(* EpisodeLabel and SkipGuide together: the guide of one show while the    *)
(* votes of one of its episodes arrive, change and go.  The other rows are *)
(* any that the show may have, and stay.                                   *)
(***************************************************************************)
EXTENDS EpisodeLabel, SkipGuide

CONSTANT RowLists   \* the rows the show may have, in the order they come in

ASSUME RowListsAssumption ==
  RowLists \subseteq {s \in Seq(EpisodeRows) : Len(s) > 0 /\ SlotsDiffer(s)}

VARIABLE rows   \* the rows as imported; the votes of the last one move

ShowInit == LabelInit /\ rows \in RowLists

ShowNext == LabelNext /\ UNCHANGED rows

ShowSpec == ShowInit /\ [][ShowNext]_<<tally, rows>>

(* The rows with the recount of the votes as it stands.                    *)
eps == [rows EXCEPT ![Len(rows)].votes = tally]

-----------------------------------------------------------------------------

Guide(mode, specials) == BuildSkipGuide(eps, mode, specials)

Skipped(mode, specials) == Range(Guide(mode, specials).skipped)

(* The modes differ only in what becomes of WORTH_WATCHING episodes, each  *)
(* skipping at least what the gentler one does; the optional list of       *)
(* standard is exactly what canon-only adds to the skips (the doc of       *)
(* build_skip_guide, scoring.rs:312-316).                                  *)
ModesNest ==
  \A sp \in BOOLEAN :
    /\ Skipped("completionist", sp) = Skipped("standard", sp)
    /\ Skipped("standard", sp) \subseteq Skipped("binge", sp)
    /\ Skipped("binge", sp) \subseteq Skipped("canon-only", sp)
    /\ Skipped("canon-only", sp) =
         Skipped("standard", sp) \cup Range(Guide("standard", sp).optional)

(* A stricter mode never claims to save less time, and a time that is      *)
(* known for what it skips is known for every gentler mode.                *)
MinutesNest ==
  \A sp \in BOOLEAN, p \in { <<"standard", "binge">>, <<"binge", "canon-only">> } :
    LET less == Guide(p[1], sp).minutes
        more == Guide(p[2], sp).minutes
    IN  \/ more = Unknown
        \/ less # Unknown /\ less <= more

(* The three lists hold every included episode exactly once, in broadcast  *)
(* order, whatever order the rows come in.                                 *)
ListsPartition ==
  \A mode \in GuideModes, sp \in BOOLEAN :
    LET g == Guide(mode, sp)
        Ordered(s) == \A i \in 1..(Len(s) - 1) : Precedes(s[i], s[i + 1])
    IN  /\ Ordered(g.watch) /\ Ordered(g.optional) /\ Ordered(g.skipped)
        /\ Len(g.watch) + Len(g.optional) + Len(g.skipped) =
             Cardinality({i \in DOMAIN eps : Included(eps[i], sp)})
        /\ Range(g.watch) \cup Range(g.optional) \cup Range(g.skipped) =
             {eps[i] : i \in {j \in DOMAIN eps : Included(eps[j], sp)}}

(* The card's numbers are those of the default guide ("specials excluded   *)
(* to match the skip guide's default view", og.rs:82): what it calls       *)
(* filler is skipped there, worth watching is optional, the rest is kept.  *)
(* It says 100% only if all is filler - of fewer than 200 episodes, that   *)
(* is: 199 of 200 round up.                                                *)
CardAgreesWithGuide ==
  LET g == Guide("standard", FALSE)
      s == OgStats(eps)
  IN  /\ s.filler = Len(g.skipped)
      /\ s.worth_watching = Len(g.optional)
      /\ s.canon + s.undecided = Len(g.watch)
      /\ FillerPct(s) \in 0..100
      /\ OgTotal(s) < 200 =>
           (FillerPct(s) = 100 <=> g.skipped # << >> /\ g.watch \o g.optional = << >>)

=============================================================================
