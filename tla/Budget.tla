------------------------------- MODULE Budget -------------------------------
(***************************************************************************)
(* The budgets of the workspaces and the global counter: admission before  *)
(* a generation and settlement after it (adapters/postgres/usage_ledger,   *)
(* called by SendMessage), when generations overlap, and the PUT of a new  *)
(* limit with If-Match (app/metering, http/routes/metering.py).            *)
(*                                                                         *)
(* An action is one transaction.  No code resets a budget at the end of    *)
(* its month, and none does here.                                          *)
(***************************************************************************)
EXTENDS Integers, FiniteSets, FiniteSetsExt, Functions

CONSTANTS Tenants,      \* workspaces
          Generations,  \* generations at a time
          Ceiling,      \* _ceiling_microcents of every message
          Costs,        \* bound: what a generation may cost in the end
          Limits,       \* bound: the limits a workspace may be given
          DefaultLimit, \* default_monthly_budget_microcents
          GlobalLimit,  \* global_monthly_budget_microcents
          Admins,       \* clients that change limits
          MaxRuns,      \* bound: generations in all
          MaxChanges    \* bound: changes of limits

ASSUME BudgetAssumption ==
          /\ Tenants # {} /\ IsFiniteSet(Generations)
          /\ Costs \subseteq Nat /\ Costs # {} /\ IsFiniteSet(Costs)
          /\ Limits \subseteq Nat /\ DefaultLimit \in Limits
          /\ Ceiling \in Nat /\ GlobalLimit \in Nat
          /\ MaxRuns \in Nat /\ MaxChanges \in Nat

VARIABLES
  budget,   \* the rows of budgets
  counter,  \* global_usage_counter
  ledger,   \* usage_events
  gen,      \* the local variables of each generation
  etag,     \* the If-Match each admin would send, by workspace
  peak,     \* the highest limit each workspace has had
  most,     \* the most admitted generations there were at a time
  runs, changes

budgetVars == <<budget, counter, ledger, gen, etag, peak, most, runs, changes>>

BudgetRow == [limit : Limits, settled : Nat, updatedAt : Nat]

UsageEvent == [id : 1 .. MaxRuns, tenant : Tenants, cost : Nat, checked : BOOLEAN]

\* "checked" is FALSE for the retry of a turn that has no reply yet, which is
\* not admitted anew.
Generation == [pc : {"idle", "workspace", "running", "settle"}, tenant : Tenants,
               id : 0 .. MaxRuns, cost : Nat, checked : BOOLEAN]

NoGeneration == [pc |-> "idle", tenant |-> CHOOSE w \in Tenants : TRUE,
                 id |-> 0, cost |-> 0, checked |-> TRUE]

BudgetTypeOK ==
  /\ budget \in [Tenants -> BudgetRow]
  /\ counter \in Nat
  /\ ledger \subseteq UsageEvent
  /\ gen \in [Generations -> Generation]
  /\ etag \in [Admins -> [Tenants -> Nat]]
  /\ peak \in [Tenants -> Nat] /\ most \in [Tenants -> Nat]
  /\ runs \in 0 .. MaxRuns /\ changes \in 0 .. MaxChanges

\* CreateWorkspace has made the row, with the default limit.
BudgetInit ==
  /\ budget = [w \in Tenants |-> [limit |-> DefaultLimit, settled |-> 0, updatedAt |-> 0]]
  /\ peak = [w \in Tenants |-> DefaultLimit]
  /\ counter = 0 /\ ledger = {}
  /\ gen = [g \in Generations |-> NoGeneration]
  /\ etag = [a \in Admins |-> [w \in Tenants |-> 0]]
  /\ most = [w \in Tenants |-> 0]
  /\ runs = 0 /\ changes = 0

-----------------------------------------------------------------------------
(* Admission.                                                              *)

\* PostgresBudgetAdmission.check_global and check.
CheckGlobal == counter + Ceiling <= GlobalLimit
CheckWorkspace(w) == budget[w].settled + Ceiling <= budget[w].limit

\* The admitted generations of a workspace, and one more.
Admitted(w) == {g \in Generations : gen[g].pc \in {"running", "settle"} /\
                                    gen[g].tenant = w /\ gen[g].checked}

NowIs(g, local) == gen' = [gen EXCEPT ![g] = local]

\* SendMessage.execute, up to the first check.
Ask(g, w) ==
  /\ gen[g].pc = "idle"
  /\ runs < MaxRuns
  /\ runs' = runs + 1
  /\ NowIs(g, IF CheckGlobal
                THEN [NoGeneration EXCEPT !.pc = "workspace", !.tenant = w, !.id = runs + 1]
                ELSE NoGeneration)
  /\ UNCHANGED <<budget, counter, ledger, etag, peak, most, changes>>

MutAdmitGeneration(g) ==
  /\ gen[g].pc = "workspace"
  /\ LET w == gen[g].tenant
         ok == budget[w].settled < budget[w].limit
     IN  /\ NowIs(g, IF ok THEN [gen[g] EXCEPT !.pc = "running"] ELSE NoGeneration)
         /\ most' = IF ok /\ Cardinality(Admitted(w)) >= most[w]
                      THEN [most EXCEPT ![w] = @ + 1] ELSE most
  /\ UNCHANGED <<budget, counter, ledger, etag, peak, runs, changes>>

\* The second check: BudgetExhaustedError, or the generation.
AdmitGeneration(g) ==
  /\ gen[g].pc = "workspace"
  /\ LET w == gen[g].tenant
         ok == CheckWorkspace(w)
     IN  /\ NowIs(g, IF ok THEN [gen[g] EXCEPT !.pc = "running"] ELSE NoGeneration)
         /\ most' = IF ok /\ Cardinality(Admitted(w)) >= most[w]
                      THEN [most EXCEPT ![w] = @ + 1] ELSE most
  /\ UNCHANGED <<budget, counter, ledger, etag, peak, runs, changes>>

\* The retry of a POST whose user message is stored and whose reply is not:
\* it skips the checks.
Retry(g, w) ==
  /\ gen[g].pc = "idle"
  /\ runs \in 1 .. MaxRuns - 1
  /\ runs' = runs + 1
  /\ NowIs(g, [NoGeneration EXCEPT !.pc = "running", !.tenant = w, !.id = runs + 1,
                                   !.checked = FALSE])
  /\ UNCHANGED <<budget, counter, ledger, etag, peak, most, changes>>

-----------------------------------------------------------------------------
(* Settlement.                                                             *)

\* The generation ends and its cost is known; without a cost, or if it fails
\* before its reply is stored, nothing is recorded.
Generated(g) ==
  /\ gen[g].pc = "running"
  /\ \E cost \in Costs :
       NowIs(g, IF cost > 0 THEN [gen[g] EXCEPT !.pc = "settle", !.cost = cost]
                            ELSE NoGeneration)
  /\ UNCHANGED <<budget, counter, ledger, etag, peak, most, runs, changes>>

\* PostgresUsageLedger.record: the event, the budget of the workspace and the
\* global counter, in one transaction.  updated_at, the ETag, changes too.
RecordEvent(g) ==
  /\ gen[g].pc = "settle"
  /\ LET w == gen[g].tenant
         cost == gen[g].cost
     IN  /\ ledger' = ledger \cup
              {[id |-> gen[g].id, tenant |-> w, cost |-> cost, checked |-> gen[g].checked]}
         /\ budget' = [budget EXCEPT ![w].settled = @ + cost, ![w].updatedAt = @ + 1]
         /\ counter' = counter + cost
  /\ NowIs(g, NoGeneration)
  /\ UNCHANGED <<etag, peak, most, runs, changes>>

-----------------------------------------------------------------------------
(* Limits.                                                                 *)

\* GET /budget: the ETag is updated_at.
GetBudget(a, w) ==
  /\ etag' = [etag EXCEPT ![a][w] = budget[w].updatedAt]
  /\ UNCHANGED <<budget, counter, ledger, gen, peak, most, runs, changes>>

\* update_limit: UPDATE ... WHERE updated_at = the If-Match; the columns of
\* the settlement stay as they are.
UpdateLimit(w, limit) ==
  [budget EXCEPT ![w].limit = limit, ![w].updatedAt = @ + 1]

\* PUT /budget; another ETag is BudgetConcurrencyConflictError.
IfMatch(a, w) == etag[a][w] = budget[w].updatedAt

\* UpdateBudget.  The response has the new ETag.
UpdateBudget(a, w, limit) ==
  /\ changes < MaxChanges
  /\ IfMatch(a, w)
  /\ changes' = changes + 1
  /\ budget' = UpdateLimit(w, limit)
  /\ etag' = [etag EXCEPT ![a][w] = budget[w].updatedAt + 1]
  /\ peak' = [peak EXCEPT ![w] = IF limit > @ THEN limit ELSE @]
  /\ UNCHANGED <<counter, ledger, gen, most, runs>>

BudgetNext ==
  \/ \E g \in Generations :
       \/ \E w \in Tenants : Ask(g, w) \/ Retry(g, w)
       \/ AdmitGeneration(g) \/ Generated(g) \/ RecordEvent(g)
  \/ \E a \in Admins, w \in Tenants :
       GetBudget(a, w) \/ \E limit \in Limits : UpdateBudget(a, w, limit)

BudgetSpec == BudgetInit /\ [][BudgetNext]_budgetVars

-----------------------------------------------------------------------------
(* Properties.                                                             *)

\* rollup: what the events of a workspace add up to.
Rollup(events) == SumFunctionOnSet([e \in events |-> e.cost], events)

Spent(w, how) == Rollup({e \in ledger : e.tenant = w /\ e.checked = how})

MaxCost == Max(Costs)

\* What was settled is what the ledger shows, for each workspace and in all,
\* whatever limits change in between.  Admission is checked before and settled
\* after, so generations that overlap exceed the limit together, but by no
\* more than their own costs: beyond the highest limit there was, a workspace
\* spends at most the cost of as many generations as were ever admitted at a
\* time, less the one ceiling the check has set aside, and what retries that
\* skip the check add.
BudgetHeld ==
  /\ counter = Rollup(ledger)
  /\ \A w \in Tenants :
       /\ budget[w].settled = Spent(w, TRUE) + Spent(w, FALSE)
       /\ Spent(w, TRUE) > 0 =>
            Spent(w, TRUE) <= peak[w] - Ceiling + most[w] * MaxCost

-----------------------------------------------------------------------------
(* Inductive strengthening.                                                *)

Busy(g) == gen[g].pc # "idle"

\* A generation is recorded once, for the cost it had.
LedgerInv ==
  /\ IsFiniteSet(ledger)
  /\ \A e \in ledger : e.id <= runs
  /\ \A g \in Generations : Busy(g) =>
       /\ gen[g].id \in 1 .. runs
       /\ \A e \in ledger : e.id # gen[g].id
       /\ \A h \in Generations : Busy(h) /\ gen[h].id = gen[g].id => h = g
       /\ gen[g].pc = "settle" => gen[g].cost \in Costs
  /\ counter = Rollup(ledger)
  /\ \A w \in Tenants : budget[w].settled = Spent(w, TRUE) + Spent(w, FALSE)

\* What a workspace has spent and what its admitted generations may still
\* cost stay within its bound.
AdmissionInv ==
  \A w \in Tenants :
    /\ budget[w].limit <= peak[w]
    /\ Cardinality(Admitted(w)) <= most[w]
    /\ Admitted(w) # {} \/ Spent(w, TRUE) > 0 =>
         Spent(w, TRUE) + Cardinality(Admitted(w)) * MaxCost
           <= peak[w] - Ceiling + most[w] * MaxCost

BudgetInv == LedgerInv /\ AdmissionInv
=============================================================================
