---------------------------- MODULE MCStateFiles ----------------------------
EXTENDS StateFiles, TLC

MCTable == {[id |-> 1, enabled |-> TRUE, cred |-> 1, token |-> 1,
             expires |-> Never]}

\* Both files from before the formats were versioned; a marker that says 0;
\* a table that does not parse; files a newer release wrote; no users yet.
MCForms == {<<"legacy", "legacy">>, <<"zero", "current">>,
            <<"legacy", "corrupt">>, <<"current", "future">>,
            <<"future", "current">>, <<"current", "missing">>}

MCFiles ==
  {[f \in File |-> IF f = Toml THEN [form |-> x[1], val |-> 1]
                   ELSE [form |-> x[2], val |-> IF x[2] = "missing" THEN {}
                                                ELSE MCTable]] : x \in MCForms}

MCSymmetry == Permutations(Admin)
=============================================================================
