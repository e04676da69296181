--------------------------- MODULE MetricRegistry ---------------------------
(***************************************************************************)
(* scripts/lib/metric-registry.mjs and plant-model.mjs: the reviews that   *)
(* admit a metric registry and a plant model, and the check of a setpoint  *)
(* against the registry.  Maintainers edit both files; every program that  *)
(* loads them reviews them first.  The reviews are operators; the edits    *)
(* are the actions.                                                        *)
(*                                                                         *)
(* Left out: schema_version and the warnings about short files.            *)
(* Bounds: MaxMetrics entries in the registry.                             *)
(***************************************************************************)
EXTENDS Integers, Sequences, SequencesExt, FiniteSets

CONSTANTS
  Expected,       \* REGISTERED_SOURCE_CONTRACTS: metric id -> its reducer
  CoreMetrics,    \* requiredCoreMetrics
  MetricIds, Reducers, PlantComponents, Actuators,
  MaxMetrics

\* What holds of the constants.
RegistryAssumption ==
  /\ DOMAIN Expected \subseteq MetricIds /\ MaxMetrics \in Nat
  /\ \A id \in DOMAIN Expected : Expected[id] \in Reducers

VARIABLES
  metrics,    \* registry.metrics: a sequence of entries
  plant       \* the plant model: state_variables in order, mapped actuators

vars == <<metrics, plant>>

Missing == "none"
Directions == {"minimize", "maximize"}
Entries == [id : MetricIds, component : PlantComponents, direction : Directions,
            reducer : Reducers \cup {Missing}]

-----------------------------------------------------------------------------

PlantStateIds(model) == {model.states[n] : n \in DOMAIN model.states}

\* Everything else reviewPlantModel reports is a warning or a constant.
ReviewPlantModel(model) ==
  /\ ~model.authority
  /\ \A m, n \in DOMAIN model.states : model.states[m] = model.states[n] => m = n
  /\ model.mapped = Actuators

\* metricMap: a Map built from the entries in order keeps the last of equal ids.
MetricMap(registry, id) ==
  LET at == {n \in DOMAIN registry : registry[n].id = id}
  IN  registry[CHOOSE n \in at : \A m \in at : m <= n]

Ids(registry) == {registry[n].id : n \in DOMAIN registry}

DuplicateValues(registry) ==
  {registry[n].id : n \in {k \in DOMAIN registry :
                             \E m \in 1..(k - 1) : registry[m].id = registry[k].id}}

\* The fields of a contract are one value here: its reducer_id if input_surface,
\* kind and the promises to stay local and deterministic are as they must be.
SourceContractViolations(registry) ==
  {id \in DOMAIN Expected : id \notin Ids(registry)}
  \cup {registry[n].id : n \in {k \in DOMAIN registry :
          LET e == registry[k] IN
            \/ e.id \notin DOMAIN Expected
            \/ e.reducer # Expected[e.id]}}

ReviewMetricRegistry(registry, model) ==
  /\ DuplicateValues(registry) = {}
  /\ \A n \in DOMAIN registry : registry[n].component \in PlantStateIds(model)
  /\ CoreMetrics \subseteq Ids(registry)
  /\ SourceContractViolations(registry) = {}

ReviewMeasurableSetpoint(setpoint, registry) ==
  /\ setpoint.id \in Ids(registry)
  /\ MetricMap(registry, setpoint.id).direction = setpoint.direction
  /\ setpoint.tolerance >= 0

-----------------------------------------------------------------------------

Init ==
  /\ metrics = <<>>
  /\ plant = [states |-> <<>>, mapped |-> {}, authority |-> FALSE]

EditRegistry ==
  \/ /\ Len(metrics) < MaxMetrics
     /\ \E e \in Entries : metrics' = Append(metrics, e)
     /\ UNCHANGED plant
  \/ /\ metrics # <<>>
     /\ \E n \in DOMAIN metrics : metrics' = RemoveAt(metrics, n)
     /\ UNCHANGED plant

EditPlantModel ==
  /\ \/ /\ Len(plant.states) < Cardinality(PlantComponents)
        /\ \E c \in PlantComponents : plant' = [plant EXCEPT !.states = Append(@, c)]
     \/ \E a \in Actuators : plant' = [plant EXCEPT !.mapped = @ \cup {a}]
     \/ ~plant.authority /\ plant' = [plant EXCEPT !.authority = TRUE]
  /\ UNCHANGED metrics

Next == EditRegistry \/ EditPlantModel

Spec == Init /\ [][Next]_vars

-----------------------------------------------------------------------------
(* Properties.                                                             *)

Admitted == ReviewPlantModel(plant) /\ ReviewMetricRegistry(metrics, plant)
Setpoints == [id : MetricIds, direction : Directions, tolerance : {-1, 0}]

\* Once both reviews pass, the answer about a setpoint does not depend on which
\* of two entries the map kept: reading the file backwards gives the same, so a
\* setpoint and its opposite direction are never both measurable.
OneReadingOfTheRegistry ==
  Admitted => \A s \in Setpoints :
    ReviewMeasurableSetpoint(s, metrics) <=> ReviewMeasurableSetpoint(s, Reverse(metrics))

\* Once both pass, a measurable setpoint leads to exactly one plant component and
\* to the reducer the code registers for the metric: no setpoint can be set on
\* a metric that nothing computes.
MeasurableMeansComputed ==
  Admitted => \A s \in Setpoints :
    ReviewMeasurableSetpoint(s, metrics) =>
      /\ s.id \in DOMAIN Expected
      /\ MetricMap(metrics, s.id).reducer = Expected[s.id]
      /\ Cardinality({n \in DOMAIN plant.states :
                        plant.states[n] = MetricMap(metrics, s.id).component}) = 1
=============================================================================
