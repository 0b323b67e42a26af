------------------------------- MODULE Reports -------------------------------
(***************************************************************************)
(* What one report of Home Assistant can change of the complete frame the  *)
(* engine is given (observation.py): a relation between the readings of a  *)
(* sensor's two channels before and after.  Estimator assumes it of its    *)
(* environment; Views shows that the cached views keep it.                 *)
(*                                                                         *)
(* A channel is its target flag and, per zone, a reading: the statistic    *)
(* raw, whether the distance is gated to the zone, and whether the zone's  *)
(* own gates supply the statistic.                                         *)
(***************************************************************************)
EXTENDS Integers

(* The observation counters of SensorView: of frames, of either channel    *)
(* and of the energies of the move channel.                                *)
Counters == {"frame", "move", "still", "energy"}

(* Nothing about a channel was reported; its held distance may lapse (2.7) *)
Held(v, w) ==
  /\ w.flag = v.flag
  /\ \A z \in DOMAIN v.at : /\ w.at[z].raw = v.at[z].raw
                            /\ w.at[z].gates = v.at[z].gates
                            /\ w.at[z].gated => v.at[z].gated

(* An entity of the channel went away: its flag reads off, its energy and  *)
(* gates read nothing, and a target without a distance falls to the        *)
(* sensor's default zone (2.3).                                            *)
Degraded(v, w) ==
  /\ w.flag => v.flag
  /\ \A z \in DOMAIN v.at :
       /\ w.at[z].gates => v.at[z].gates
       /\ w.at[z].gates = v.at[z].gates => w.at[z].raw <= v.at[z].raw
       /\ w.at[z].gated => v.at[z].gated \/ w.flag

(* A distance or a flag was reported: the energies stay. *)
Moved(v, w) == \A z \in DOMAIN v.at : /\ w.at[z].raw = v.at[z].raw
                                      /\ w.at[z].gates = v.at[z].gates

(* What one entity's report can change of a view the engine has seen: the  *)
(* counters SensorView.update advances and the readings it touches.        *)
Reports(view, fresh, move, still) ==
  \/ /\ fresh = {"frame", "move", "energy"}              \* move energy
     /\ move.flag = view.move.flag /\ Held(view.still, still)
  \/ /\ fresh = {"frame", "move"}                  \* its flag, its distance
     /\ Moved(view.move, move) /\ Held(view.still, still)
  \/ fresh = {"frame", "still"} /\ Held(view.move, move)  \* a still entity
  \/ /\ fresh = {"frame", "move", "still"}               \* the target flag
     /\ Held(view.move, move) /\ Held(view.still, still)
  \/ /\ fresh = {}                                 \* nothing was measured
     /\ \/ Degraded(view.move, move) /\ Held(view.still, still)
        \/ Held(view.move, move) /\ Degraded(view.still, still)

(* What the engine can take for fresh: the first frame after an outage     *)
(* carries all that was counted meanwhile, and the counters of a rebuilt   *)
(* view differ from the engine's, or coincide, by chance.                  *)
Certified(view, fresh, move, still) ==
  CASE view.counters = "seen" -> Reports(view, fresh, move, still)
    [] view.counters = "ahead" ->
         /\ "frame" \in fresh <=> fresh \cap {"move", "still"} # {}
         /\ "energy" \in fresh => "move" \in fresh
    [] view.counters = "rebuilt" -> TRUE
=============================================================================
