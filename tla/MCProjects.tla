----------------------------- MODULE MCProjects -----------------------------
(***************************************************************************)
(* Values of the constants of Registry and Membership for the model        *)
(* checker.                                                                *)
(***************************************************************************)
EXTENDS Membership, RegistryRefinement

CONSTANTS ann, bob, core, docs, emoji

\* Two names that may be registered, one of them as long as names may be; one
\* with other characters.
NameLengths == [n \in Name |-> IF n = docs THEN 30 ELSE 4]
Letters == Name \ {emoji}

\* Either account pays for one project.
Wallets == [a \in Account |-> 2]

\* Alone, an account twice, and nobody.
Lists == {<<ann>>, <<bob, bob>>, <<>>}

\* A sub-project that need not be registered, and too many.
SubLists == {<<docs>>, <<core, docs, core>>}

\* No badge, and several with the default one and one of them twice, whose weights
\* exceed the width of the model's numbers.
BadgeChoices == {<<>>, <<"Verified", "Default", "Developer", "Developer">>}

\* Tenths of a unit: five millions more than the model's numbers can hold, and
\* just over four millions.
WidePowers == [a \in Account |-> IF a = ann THEN 217772165 ELSE 40000019]
=============================================================================
