---------------------------- MODULE OracleMarket ----------------------------
(***************************************************************************)
(* How a binary market gets its result (MarketFactory.sol): from the admin *)
(* or, if it was created so, from UMA's optimistic oracle.  Anybody may    *)
(* assert a result, with a bond; the oracle finds the assertion true (also *)
(* when nobody disputes it) or false, and calls the factory back.  The     *)
(* admin can point the factory at another oracle at any time.              *)
(*                                                                         *)
(* The bond passes through the factory to the oracle in one transaction,   *)
(* and is left out with the rest of the oracle.  The end of trading is not *)
(* modelled: an assertion may come at any time.                            *)
(***************************************************************************)
EXTENDS CPMM

CONSTANTS
    Oracles,            \* oracle contracts the admin may choose
    NoOracle            \* address(0)

ASSUME OracleAssumption == NoOracle \notin Oracles

VARIABLES
    source,             \* resolutionSource: "admin" for all but UMA markets
    umaOracle,          \* the oracle the factory asks and listens to
    assertion           \* marketToAssertion, with the oracle that has it and
                        \* assertionToProposedResult

oracleVars == <<source, umaOracle, assertion>>

NoAssertion == [oracle |-> NoOracle, proposed |-> "none"]
Assertion == [oracle: Oracles, proposed: Side] \union {NoAssertion}

OracleInit ==
    /\ Init
    /\ source = "admin"
    /\ umaOracle \in Oracles \union {NoOracle}
    /\ assertion = NoAssertion

\* createMarket with its resolution source
CreateWithSource ==
    /\ Creation
    /\ \/ source' = "admin"
       \/ source' = "uma" /\ umaOracle # NoOracle
    /\ UNCHANGED <<umaOracle, assertion>>

\* Mutant of ResolveByAdmin: markets of the oracle are not excepted.
ResolveByAdminAny(side) ==
    /\ Resolve(side)
    /\ UNCHANGED oracleVars

\* resolveMarket
ResolveByAdmin(side) ==
    /\ source # "uma"
    /\ Resolve(side)
    /\ UNCHANGED oracleVars

\* requestUmaResolution: one assertion at a time
RequestUmaResolution(side) ==
    /\ market.created
    /\ source = "uma"
    /\ ~market.resolved
    /\ assertion = NoAssertion
    /\ umaOracle # NoOracle
    /\ assertion' = [oracle |-> umaOracle, proposed |-> side]
    /\ UNCHANGED <<vars, source, umaOracle>>

\* The oracle that has the assertion settles it once, at settleUmaAssertion
\* or a call of its own, and the factory refuses any but its present oracle.
Settles == assertion # NoAssertion /\ assertion.oracle = umaOracle

\* assertionResolvedCallback, found true
AssertedTruthfully ==
    /\ Settles
    /\ Resolve(assertion.proposed)
    /\ UNCHANGED oracleVars

\* ... and found false: somebody else may assert.
AssertionRejected ==
    /\ Settles
    /\ ~market.resolved
    /\ assertion' = NoAssertion
    /\ UNCHANGED <<vars, source, umaOracle>>

\* setUmaOracle
SetUmaOracle(oracle) ==
    /\ umaOracle' = oracle
    /\ UNCHANGED <<vars, source, assertion>>

OracleNext ==
    \/ CreateWithSource
    \/ PoolStep /\ UNCHANGED oracleVars
    \/ \E side \in Side : ResolveByAdmin(side) \/ RequestUmaResolution(side)
    \/ AssertedTruthfully
    \/ AssertionRejected
    \/ \E oracle \in Oracles \union {NoOracle} : SetUmaOracle(oracle)

OracleSpec == OracleInit /\ [][OracleNext]_<<vars, oracleVars>>

---------------------------------------------------------------------------
(* Properties *)

\* A market of the oracle is only ever resolved to what was asserted, whoever
\* else may resolve markets, however often assertions were rejected before and
\* whichever oracles the factory listened to: resolveMarket excepts these
\* markets, and nobody can assert again once a result stands.
ResultWasAsserted ==
    source = "uma" /\ market.resolved => market.result = assertion.proposed
=============================================================================
