----------------------------- MODULE MCRegister -----------------------------
(***************************************************************************)
(* An instance of Register for TLC: a named desk with a treasury account   *)
(* onboarded by script, a named desk whose own wallet was onboarded by     *)
(* script too, an anchor lender, an outsider, and a self-service desk.     *)
(***************************************************************************)
EXTENDS Register, TLC

CONSTANTS agent, pool, retail, retail2, desk, treasury, fund, anchor, outsider, new1

MCWallets == {agent, retail, retail2, desk, treasury, fund, anchor, outsider, new1}
MCFeederKeys == {retail, retail2}
MCRecorded == {retail}
MCNamedDesks == {[name |-> "Meridian", wallet |-> desk], [name |-> "Halcyon", wallet |-> fund]}
MCNewDesks == {[name |-> "Desk 1", wallet |-> new1]}
Institution(name, wallet, role, eligible) ==
    [name |-> name, wallet |-> wallet, role |-> role, eligible |-> eligible]
MCScripted == {Institution("Meridian", treasury, "seller", TRUE),
               Institution("Halcyon", fund, "buyer", TRUE),
               Institution("Unverified", outsider, "outsider", FALSE),
               Institution("Northgate", anchor, "lender", TRUE)}
MCOnboardable == {[name |-> "Northgate", wallet |-> anchor, role |-> "lender"],
                  [name |-> "Halcyon", wallet |-> treasury, role |-> "lender"]}
MCOpeningPar == [w \in MCWallets |-> IF w = anchor THEN 2 ELSE IF w \in {desk, retail} THEN 1 ELSE 0]
FileOrder == <<treasury, desk, fund, anchor, new1, retail, retail2, agent, outsider>>
MCPosition == [w \in MCWallets |-> CHOOSE n \in DOMAIN FileOrder : FileOrder[n] = w]
Rows == {[wallet |-> w, par |-> p] : w \in {anchor, new1, agent}, p \in 0..1}
MCInputs == {<<>>} \cup {<<a>> : a \in Rows} \cup {<<a, b>> : a \in Rows, b \in Rows}
MCPrincipals == 0..2
=============================================================================
