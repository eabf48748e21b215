-------------------------- MODULE PageRankIteration --------------------------
(***************************************************************************)
(* run_page_rank_with_traversal of src/src/pagerank/pagerank.cpp: the      *)
(* power iteration over two vectors that swap their roles, and the report  *)
(* that is filled in on the way.                                           *)
(*                                                                         *)
(* A vector is the term that says how it was computed, so two vectors are  *)
(* equal only if the same operations were applied to the same vector.      *)
(* Which numbers are finite, or small enough, is not modelled: each check  *)
(* may come out either way.                                                *)
(***************************************************************************)
EXTENDS Integers

CONSTANTS
  MaxIterations,   \* config.max_iterations
  RankAfter        \* RankAfter[k]: the ranks of iteration k, by definition

Initial        == <<"uniform">>
Unset          == <<"unset">>
Transformed(v) == <<"transformed", v>>   \* divided by the out-degrees
Mapped(v)      == <<"mapped", v>>        \* write_candidate, from transformed v
Normal(v)      == <<"normalized", v>>
TermsOf(v)     == <<"terms", v>>         \* write_residual_terms
Measured(v, w) == <<"delta", v, w>>      \* of v to what w was before its transform
SumOf(v)       == IF v[1] = "terms" THEN v[2] ELSE Unset
None           == <<"none">>
NoView ==
  [iteration |-> 0, candidate |-> None, raw_mass |-> None, delta_l1 |-> None,
   true_residual_l1 |-> None]

\* validate_page_rank_config refuses zero.
ASSUME IterationAssumption ==
  /\ MaxIterations \in Nat \ {0}
  /\ RankAfter[0] = Initial
  /\ \A k \in 1 .. MaxIterations :
       RankAfter[k] = Normal(Mapped(Transformed(RankAfter[k - 1])))

VARIABLES
  parallel,         \* which DestinationTraversal it is
  point,
  iteration,
  current, scratch, \* what the two vectors hold
  report,
  ranks,            \* verified_ranks of the result
  view              \* history: what the observer was shown last

vectors == <<current, scratch>>
iterationVars ==
  <<parallel, point, iteration, vectors, report, ranks, view>>

Points == {"start", "transform", "map", "normalize", "residual", "terms",
           "observe", "decide", "returned", "thrown"}

TransformFailures ==
  {"invalid_current_rank", "invalid_dangling_mass", "invalid_transformed_rank"}
UnmeasuredFailures == {"invalid_candidate_rank", "invalid_raw_mass"}
MeasuredFailures ==
  {"mass_tolerance_exceeded", "invalid_normalized_rank", "invalid_current_rank",
   "invalid_delta"}

\* Without max_mass_error, and without the two error estimates, which are set
\* and reset together with the number they are computed from.
EmptyReport ==
  [status |-> "non_converged", numerical_failure |-> "none",
   iterations_attempted |-> 0, residual_checks |-> 0, last_raw_mass |-> None,
   last_delta_l1 |-> None, true_residual_l1 |-> None]

IterationInit ==
  /\ parallel \in BOOLEAN
  /\ point = "start" /\ iteration = 1
  /\ current = Unset /\ scratch = Unset
  /\ report = EmptyReport
  /\ ranks = None /\ view = NoView

Proceed(where) == point' = where

Return(status, failure, vector) ==
  /\ report' = [report EXCEPT !.status = status, !.numerical_failure = failure]
  /\ ranks' = vector
  /\ Proceed("returned")

FailNumerically(failure) == Return("numerical_failure", failure, None)

\* The degrees are loaded and the vectors allocated.
Allocate ==
  /\ point = "start"
  /\ current' = Initial
  /\ Proceed("transform")
  /\ UNCHANGED <<parallel, iteration, scratch, report, ranks, view>>

\* An allocation, a read, a pass over the graph or the observer throws.
Throws ==
  /\ point \in {"start", "map", "residual", "observe"}
  /\ Proceed("thrown")
  /\ UNCHANGED <<parallel, iteration, vectors, report, ranks, view>>

Attempt == [report EXCEPT !.iterations_attempted = iteration]

Transform ==
  /\ point = "transform"
  /\ report' = Attempt
  /\ current' = Transformed(current)
  /\ Proceed("map")
  /\ UNCHANGED <<parallel, iteration, scratch, ranks, view>>

\* transform_current_in_place gives up on the way, or base is not finite.  With
\* every return but that of Converge both vectors are freed.
TransformFails(failure) ==
  /\ point = "transform"
  /\ report' = [Attempt EXCEPT !.status = "numerical_failure",
                               !.numerical_failure = failure]
  /\ ranks' = None
  /\ Proceed("returned")
  /\ UNCHANGED <<parallel, iteration, vectors, view>>

WriteCandidate ==
  /\ point = "map"
  /\ scratch' = Mapped(current)
  /\ Proceed("normalize")
  /\ UNCHANGED <<parallel, iteration, current, report, ranks, view>>

\* Mutant: the residual of an earlier iteration stays in the report.
Measurements_KeepResidual ==
  [report EXCEPT !.last_raw_mass = scratch,
                 !.last_delta_l1 = Measured(Normal(scratch), current)]

\* What the report says after a candidate was normalised.
Measurements ==
  [report EXCEPT !.last_raw_mass = scratch,
                 !.last_delta_l1 = Measured(Normal(scratch), current),
                 !.true_residual_l1 = None]

\* normalize_and_measure_candidate, and the delta that only decides whether the
\* residual is worth computing.
Normalize ==
  /\ point = "normalize"
  /\ scratch' = Normal(scratch)
  /\ \/ /\ report' = Measurements
        /\ Proceed("observe")
     \/ /\ report' = [Measurements EXCEPT !.residual_checks = @ + 1]
        /\ Proceed("residual")
  /\ UNCHANGED <<parallel, iteration, current, ranks, view>>

\* The mass that is reported may be that of a part of the candidate.
NormalizeFails(failure) ==
  /\ point = "normalize"
  /\ report' = [report EXCEPT !.last_raw_mass = scratch,
                              !.status = "numerical_failure",
                              !.numerical_failure = failure]
  /\ ranks' = None
  /\ Proceed("returned")
  /\ UNCHANGED <<parallel, iteration, vectors, view>>

SetResidual(v) == report' = [report EXCEPT !.true_residual_l1 = v]

\* compute_true_residual_single_thread needs no vector besides the candidate.
ResidualSequentially ==
  /\ point = "residual" /\ ~parallel
  /\ SetResidual(scratch)
  /\ Proceed("observe")
  /\ UNCHANGED <<parallel, iteration, vectors, ranks, view>>

\* Mutant: the terms are written over the candidate.
WriteTerms_OverCandidate ==
  /\ point = "residual" /\ parallel
  /\ scratch' = TermsOf(scratch)
  /\ Proceed("terms")
  /\ UNCHANGED <<parallel, iteration, current, report, ranks, view>>

\* The parallel one writes the terms over the current vector, which the caller
\* lends it, ...
WriteTerms ==
  /\ point = "residual" /\ parallel
  /\ current' = TermsOf(scratch)
  /\ Proceed("terms")
  /\ UNCHANGED <<parallel, iteration, scratch, report, ranks, view>>

\* ... and adds them up.
SumTerms ==
  /\ point = "terms"
  /\ SetResidual(SumOf(current))
  /\ Proceed("observe")
  /\ UNCHANGED <<parallel, iteration, vectors, ranks, view>>

\* nullopt: of the candidate, of base or of a term.
ResidualFails ==
  /\ point \in {"residual", "terms"}
  /\ FailNumerically("invalid_residual")
  /\ UNCHANGED <<parallel, iteration, vectors, view>>

Observe ==
  /\ point = "observe"
  /\ view' = [iteration |-> iteration, candidate |-> scratch,
              raw_mass |-> report.last_raw_mass,
              delta_l1 |-> report.last_delta_l1,
              true_residual_l1 |-> report.true_residual_l1]
  /\ Proceed("decide")
  /\ UNCHANGED <<parallel, iteration, vectors, report, ranks>>

\* residual_condition_passes: the candidate itself is handed out.
Converge ==
  /\ point = "decide"
  /\ report.true_residual_l1 # None
  /\ Return("converged", report.numerical_failure, scratch)
  /\ UNCHANGED <<parallel, iteration, vectors, view>>

GiveUp ==
  /\ point = "decide"
  /\ iteration = MaxIterations
  /\ Return("non_converged", report.numerical_failure, None)
  /\ UNCHANGED <<parallel, iteration, vectors, view>>

\* Mutant: the vectors keep their roles.
Rotate_Kept ==
  /\ point = "decide"
  /\ iteration # MaxIterations
  /\ iteration' = iteration + 1
  /\ Proceed("transform")
  /\ UNCHANGED <<parallel, vectors, report, ranks, view>>

Rotate ==
  /\ point = "decide"
  /\ iteration # MaxIterations
  /\ current' = scratch /\ scratch' = current
  /\ iteration' = iteration + 1
  /\ Proceed("transform")
  /\ UNCHANGED <<parallel, report, ranks, view>>

IterationNext ==
  \/ Allocate \/ Throws
  \/ Transform \/ \E f \in TransformFailures : TransformFails(f)
  \/ WriteCandidate
  \/ Normalize
  \/ \E f \in UnmeasuredFailures \union MeasuredFailures : NormalizeFails(f)
  \/ ResidualSequentially \/ WriteTerms \/ SumTerms \/ ResidualFails
  \/ Observe \/ Converge \/ GiveUp \/ Rotate

IterationSpec == IterationInit /\ [][IterationNext]_iterationVars

----------------------------------------------------------------------------
(* Properties.                                                             *)

\* pagerank.cpp:717-729: ranks are handed out only with the status converged,
\* they are those of the last iteration, and the residual in the report was
\* computed, by either traversal, from these very ranks.
VerifiedResult ==
  /\ ranks # None =>
       /\ point = "returned" /\ report.status = "converged"
       /\ ranks = RankAfter[report.iterations_attempted]
       /\ report.true_residual_l1 = ranks
       /\ report.residual_checks \in 1 .. report.iterations_attempted
  /\ point = "returned" =>
       /\ report.status = "converged" => ranks # None
       /\ report.status = "non_converged" =>
            report.iterations_attempted = MaxIterations
       /\ report.status = "numerical_failure" <=>
            report.numerical_failure # "none"

\* pagerank.cpp:707-715: all that the observer is shown is of one iteration:
\* the candidate is that of its number, the residual, if any, is that of the
\* candidate, and the delta is to the ranks one iteration before.
ViewIsOfOneIteration ==
  view # NoView =>
    /\ view.iteration \in 1 .. MaxIterations
    /\ view.candidate = RankAfter[view.iteration]
    /\ Normal(view.raw_mass) = view.candidate
    /\ view.delta_l1 = Measured(view.candidate,
                                Transformed(RankAfter[view.iteration - 1]))
    /\ view.true_residual_l1 \in {None, view.candidate}

\* pagerank.cpp:677-681: a report, be it that of a failure in a later iteration
\* that has not come to its measurements, never sets the residual of one vector
\* beside the delta of another.
ReportIsOfOneVector ==
  report.true_residual_l1 # None =>
    \E k \in 1 .. report.iterations_attempted :
      /\ report.true_residual_l1 = RankAfter[k]
      /\ report.last_delta_l1 = Measured(RankAfter[k], Transformed(RankAfter[k - 1]))

----------------------------------------------------------------------------
(* The inductive invariant of the proofs.                                  *)

\* What the vectors and the report hold at each point of an iteration.
Earlier == RankAfter[iteration - 1]

VectorsAgree ==
  /\ point = "start" => iteration = 1
  /\ point = "transform" => current = Earlier
  /\ point \in {"map", "normalize"} => current = Transformed(Earlier)
  /\ point = "normalize" => scratch = Mapped(Transformed(Earlier))
  /\ point \in {"residual", "terms", "observe", "decide"} =>
       scratch = RankAfter[iteration]
  /\ point = "terms" => current = TermsOf(RankAfter[iteration])

ReportAgrees ==
  /\ point \in {"residual", "terms", "observe", "decide"} =>
       /\ report.last_raw_mass = Mapped(Transformed(Earlier))
       /\ report.last_delta_l1 = Measured(RankAfter[iteration], Transformed(Earlier))
  /\ point \in {"residual", "terms"} =>
       report.true_residual_l1 = None /\ report.residual_checks > 0
  /\ point \in {"observe", "decide"} =>
       report.true_residual_l1 \in {None, RankAfter[iteration]}
  /\ point \in {"observe", "decide"} /\ report.true_residual_l1 # None =>
       report.residual_checks > 0

CountsAgree ==
  /\ iteration \in 1 .. MaxIterations
  /\ report.iterations_attempted \in 0 .. MaxIterations
  /\ report.residual_checks \in 0 .. report.iterations_attempted
  /\ point \in {"start", "transform"} => report.iterations_attempted = iteration - 1
  /\ point \in {"map", "normalize", "residual", "terms", "observe", "decide"} =>
       report.iterations_attempted = iteration
  /\ point \in {"map", "normalize"} => report.residual_checks < iteration

\* A result exists only once the call has returned.
ResultAgrees ==
  point # "returned" =>
    /\ ranks = None
    /\ report.status = "non_converged" /\ report.numerical_failure = "none"

\* A point, and a report with its fields.
TypeOK ==
  /\ point \in Points
  /\ report = [status |-> report.status,
               numerical_failure |-> report.numerical_failure,
               iterations_attempted |-> report.iterations_attempted,
               residual_checks |-> report.residual_checks,
               last_raw_mass |-> report.last_raw_mass,
               last_delta_l1 |-> report.last_delta_l1,
               true_residual_l1 |-> report.true_residual_l1]

IterationInv ==
  /\ TypeOK /\ CountsAgree /\ VectorsAgree /\ ReportAgrees /\ ResultAgrees
  /\ VerifiedResult /\ ViewIsOfOneIteration /\ ReportIsOfOneVector
=============================================================================
