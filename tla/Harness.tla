------------------------------- MODULE Harness -------------------------------
(***************************************************************************)
(* The reproducibility harness (core replay.h verifyReproducible, with the *)
(* checksums per domain of world.h and checksum.h): the same seed is run   *)
(* several times, every tick of every run is compared with the first run,  *)
(* and the first divergence is reported.                                   *)
(*                                                                         *)
(* A run's checksums are modelled by the domains in which they differ from *)
(* those of the first run; any domain may differ at any tick, and what     *)
(* differs in a part differs in the total, which is sealed over the parts, *)
(* the tick and the seed (checksum.h).                                     *)
(***************************************************************************)
EXTENDS Integers, Sequences, FiniteSets

CONSTANTS
  Arguments,          \* ticks, runs and the length of scratch (0: there is none)
  Diffs               \* sets of domains that differ at one tick

(* firstDivergentDomain reports the domain whose systems run first; the    *)
(* total alone differs only when the tick or the seed does.                *)
Domains == <<"spawn", "entities", "hero", "run", "rng", "total">>

ASSUME HarnessAssumption ==
  /\ Arguments \subseteq [ticks : Int, runs : Int, scratch : Nat]
  /\ \A d \in Diffs : d \subseteq {Domains[i] : i \in DOMAIN Domains}
  /\ \A d \in Diffs : d # {} => "total" \in d

VARIABLES
  harness,       \* idle, running or reported
  asked,         \* the arguments of the call
  differs,       \* runNo and tick -> what differs there, first runNo included (nothing)
  runNo, tickNo,        \* the two loops
  report

harnessVars == <<harness, asked, differs, runNo, tickNo, report>>

Ticks == asked.ticks
Runs  == asked.runs

(* A tick 0 is recorded as well, hence ticks + 1 places.                   *)
ArgumentError == asked.scratch < Ticks + 1 \/ Ticks < 0 \/ Runs < 1

Unasked == [ticks |-> 0, runs |-> 1, scratch |-> 1]

NoReport == [ok |-> TRUE, tick |-> -1, run |-> -1, domain |-> "none", ticksRun |-> 0]
BadCall  == [NoReport EXCEPT !.ok = FALSE, !.domain = "argument error"]
Agreed   == [NoReport EXCEPT !.ticksRun = Ticks]

(* mutant: the last domain that differs.                                   *)
LastDivergentDomain(d) ==
  Domains[CHOOSE i \in DOMAIN Domains :
            Domains[i] \in d /\ \A j \in i + 1 .. Len(Domains) : Domains[j] \notin d]

FirstDivergentDomain(d) ==
  Domains[CHOOSE i \in DOMAIN Domains :
            Domains[i] \in d /\ \A j \in 1 .. i - 1 : Domains[j] \notin d]

HarnessInit ==
  /\ harness = "idle" /\ asked = Unasked /\ differs = <<>>
  /\ runNo = 0 /\ tickNo = 0
  /\ report = NoReport

(* verifyReproducible(seed, ticks, runs, scratch, scratchLen, step).       *)
Call(args) ==
  /\ harness = "idle"
  /\ asked' = args
  /\ harness' = "called"
  /\ UNCHANGED <<differs, runNo, tickNo, report>>

Refuse ==
  /\ harness = "called" /\ ArgumentError
  /\ harness' = "reported" /\ report' = BadCall
  /\ UNCHANGED <<asked, differs, runNo, tickNo>>

Verify ==
  /\ harness = "called" /\ ~ArgumentError
  /\ harness' = "running"
  /\ differs' \in {d \in [(0 .. Runs - 1) \X (0 .. Ticks) -> Diffs] :
                     \A n \in 0 .. Ticks : d[<<0, n>>] = {}}
  /\ UNCHANGED <<asked, runNo, tickNo, report>>

(* A tick whose checksums are those of the first run; after the last tick  *)
(* the next run starts anew, after the last run the report says ok.        *)
Agree ==
  /\ harness = "running"
  /\ differs[<<runNo, tickNo>>] = {}
  /\ tickNo' = IF tickNo < Ticks THEN tickNo + 1 ELSE 0
  /\ runNo' = IF tickNo < Ticks THEN runNo ELSE runNo + 1
  /\ IF tickNo = Ticks /\ runNo = Runs - 1
     THEN harness' = "reported" /\ report' = Agreed
     ELSE UNCHANGED <<harness, report>>
  /\ UNCHANGED <<asked, differs>>

Diverge ==
  /\ harness = "running"
  /\ differs[<<runNo, tickNo>>] # {}
  /\ report' = [ok |-> FALSE, tick |-> tickNo, run |-> runNo,
                domain |-> FirstDivergentDomain(differs[<<runNo, tickNo>>]), ticksRun |-> tickNo]
  /\ harness' = "reported"
  /\ UNCHANGED <<asked, differs, runNo, tickNo>>

HarnessNext == (\E a \in Arguments : Call(a)) \/ Refuse \/ Verify \/ Agree \/ Diverge

----------------------------------------------------------------------------
(* The report says ok exactly when the arguments can be used and no tick   *)
(* of any run differs; otherwise it names the first run that does, the     *)
(* first tick at which it does, and the first domain in the order of the   *)
(* tick: what comes later is only a consequence (replay.h).                *)
FirstDivergence ==
  harness = "reported" =>
    LET bad(r, n)  == differs[<<r, n>>] # {}
        apart(r)  == \E n \in 0 .. Ticks : bad(r, n)
    IN  IF ArgumentError THEN report = BadCall
        ELSE IF \A r \in 0 .. Runs - 1 : ~apart(r) THEN report = Agreed
        ELSE /\ ~report.ok
             /\ bad(report.run, report.tick)
             /\ \A r \in 0 .. report.run - 1 : ~apart(r)
             /\ \A n \in 0 .. report.tick - 1 : ~bad(report.run, n)
             /\ \A i, j \in DOMAIN Domains :
                  Domains[i] = report.domain /\ j < i =>
                    Domains[i] \in differs[<<report.run, report.tick>>]
                      /\ Domains[j] \notin differs[<<report.run, report.tick>>]
=============================================================================
