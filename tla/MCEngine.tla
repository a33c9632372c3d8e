------------------------------- MODULE MCEngine -------------------------------
(* The automation engine for TLC: the checks of orders and of stock, the   *)
(* compensation table, and dispute triage with the AI service, which also  *)
(* gets a call from another of its entries.  They share nothing but the    *)
(* rules, so a behaviour takes one of them.                                *)
EXTENDS AutomationEngine, Decisions, DisputeTriage

CONSTANTS Other,    \* a call that does not come from a triage
          Askers    \* the triages that may use the AI

MCCalls == (Triages \X (1..ClientRetries)) \union {Other}

(* A refund request, a legal threat.                                       *)
MCMessages == {{"refund"}, {"legal"}}

engineVars == <<vars, compensations, allVars>>

Touched == {f.of : f \in raised} \union clashed \union twins
NoOrder == /\ orders = [o \in Orders |-> Absent] /\ Orders \intersect Touched = {}
           /\ Running("order") \union Running("delay") = {}
NoStock == /\ stock = [s \in Skus |-> <<>>] /\ Skus \intersect Touched = {}
           /\ Running("stock") = {}
NoTriage == triage = [r \in Triages |-> NotSubmitted]
NoDecision == compensations = <<>>
NoCall == call = [c \in Calls |-> NotCalled]

(* Triages that write, or call the AI, begin on any row; the rest on none. *)
Fresh == row = [d \in Disputes |-> NoRow] /\ provider = "hosted"

CheckStep == /\ NoDecision /\ NoTriage /\ NoCall /\ Fresh
             /\ Next /\ (NoOrder \/ NoStock)'
             /\ UNCHANGED <<compensations, allVars>>
TableStep == /\ Init /\ NoTriage /\ NoCall /\ Fresh
             /\ TableNext /\ UNCHANGED <<vars, allVars>>
OtherCall == /\ Init /\ NoDecision /\ NoTriage
             /\ \/ \E e \in Entries, t \in Tasks : Ask(Other, e, t)
                \/ ServiceStep
             /\ UNCHANGED <<vars, compensations, triageVars>>
TriageStep == /\ Init /\ NoDecision /\ call[Other] = NotCalled
              /\ TriageNext
              /\ \A r \in Triages \ Askers : triage'[r].phase # "sending"
              /\ UNCHANGED <<vars, compensations>>

EngineInit == Init /\ TableInit /\ TriageInit
EngineNext == CheckStep \/ TableStep \/ OtherCall \/ TriageStep

EngineSafeSpec == EngineInit /\ [][EngineNext]_engineVars
EngineSpec == EngineSafeSpec /\ TriageFairness
=============================================================================
