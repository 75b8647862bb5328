------------------------- MODULE EmergencyContract -------------------------
(***************************************************************************)
(* What the emergency operation of one zone promises to everybody who only *)
(* looks at its stage (domain/emergency_operation.py:15-38): the edges of  *)
(* the four stages, one episode per disturbance, and the handover of the   *)
(* thermostats announced once in an episode.  EmergencyOperation           *)
(* implements it; EmergencyActuation is composed with it.                  *)
(***************************************************************************)
EXTENDS Naturals

CONSTANT MaxEpisode    \* the bound of the model on episode ids

ASSUME MaxEpisodeAssumption == MaxEpisode \in Nat

VARIABLES
    stage,       \* the stage of the zone
    episode,     \* the id of its open episode, 0 if there is none
    opened,      \* how many episodes were ever opened: the last id given out
    announced,   \* is the handover of this episode announced?
    record       \* the rows sensor_failure_episode: how each episode stands

contractVars == <<stage, episode, opened, announced, record>>

Stage == {"normal", "ersatzquelle", "notbetrieb", "rueckkehrpruefung"}

Record == {"none", "open", "recovered", "deactivated"}

ContractTypeOK ==
    /\ stage \in Stage
    /\ episode \in 0..MaxEpisode
    /\ opened \in 0..MaxEpisode
    /\ announced \in BOOLEAN
    /\ record \in [1..MaxEpisode -> Record]

ContractInit ==
    /\ stage = "normal"
    /\ episode = 0
    /\ opened = 0
    /\ announced = FALSE
    /\ record = [e \in 1..MaxEpisode |-> "none"]

\* The wall probe is lost: an episode opens, with the handover announced at
\* once when there is no replacement either.
Open(to) ==
    /\ stage = "normal" /\ opened < MaxEpisode
    /\ to \in {"ersatzquelle", "notbetrieb"}
    /\ stage' = to
    /\ opened' = opened + 1
    /\ episode' = opened + 1
    /\ announced' = (to = "notbetrieb")
    /\ record' = [record EXCEPT ![opened + 1] = "open"]

\* Within the episode the stages follow their diagram.
Edge == {<<"ersatzquelle", "notbetrieb">>,
         <<"notbetrieb", "rueckkehrpruefung">>,
         <<"rueckkehrpruefung", "notbetrieb">>,
         <<"rueckkehrpruefung", "ersatzquelle">>}

Move(to) ==
    /\ <<stage, to>> \in Edge
    /\ stage' = to
    /\ announced' = (announced \/ to = "notbetrieb")
    /\ UNCHANGED <<episode, opened, record>>

Close(ending) ==
    /\ stage # "normal"
    /\ stage' = "normal"
    /\ episode' = 0
    /\ announced' = FALSE
    /\ record' = [record EXCEPT ![episode] = ending]
    /\ UNCHANGED opened

\* A source that proved itself: never straight out of the takt.
Recover == stage # "notbetrieb" /\ Close("recovered")

\* The emergency operation is switched off while the episode is open.
Deactivate == Close("deactivated")

ContractNext ==
    \/ \E to \in Stage : Open(to) \/ Move(to)
    \/ Recover
    \/ Deactivate

ContractSpec == ContractInit /\ [][ContractNext]_contractVars

----------------------------------------------------------------------------

\* An episode row stands open exactly while the zone is out of its normal
\* stage, it is the zone's own and the latest one: no episode is lost open
\* behind a later one (shadow_run.py:501-561, 755-772).
OneOpenEpisode ==
    /\ episode # 0 <=> stage # "normal"
    /\ episode \in {0, opened}
    /\ \A e \in 1..MaxEpisode : record[e] = "open" <=> e = episode

\* The thermostats' handover is announced before the takt runs, and stays so
\* for the rest of the episode (emergency_operation.py:59-65).
AnnouncedBeforeTakt ==
    stage \in {"notbetrieb", "rueckkehrpruefung"} => announced
=============================================================================
