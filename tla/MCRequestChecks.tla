-------------------------- MODULE MCRequestChecks --------------------------
(***************************************************************************)
(* Every token with one of three secrets, and every result of the SDK with *)
(* at most two provider payments.                                          *)
(***************************************************************************)
EXTENDS RequestChecks

\* The two services may share a secret, and customers may be switched off.
AllSettings ==
  [secret : {"s1"}, customerSecret : {"", "s1", "s2"},
   issuer : {"os"}, customerIssuer : {"os", "lambda"}]

AllTokens ==
  [scheme : {"none", "basic", "bearer"}, signedWith : {"s1", "s2", "s3"},
   iss : {"os", "lambda"}, current : BOOLEAN, role : {"admin", "customer", "mechanic"},
   sub : BOOLEAN, userId : BOOLEAN, customerId : BOOLEAN]

Item(reference, amount, currency, id, status) ==
  [reference |-> reference, amount |-> amount, currency |-> currency,
   id |-> id, status |-> status]

Items == {Item(r, a, c, i, s) : r \in BOOLEAN, a \in {"same", "other", "missing", "odd"},
            c \in BOOLEAN, i \in BOOLEAN,
            s \in {"approved", "rejected", "pending", "in_mediation", ""}}
Good == Item(TRUE, "same", TRUE, TRUE, "approved")
Refund == Item(TRUE, "same", TRUE, TRUE, "refunded")
Stray == Item(FALSE, "same", TRUE, TRUE, "approved")
Wrong == Item(TRUE, "other", TRUE, TRUE, "approved")
Lists == {<<>>} \cup {<<i>> : i \in Items}
         \cup {<<i, j>> : i, j \in {Good, Refund, Stray, Wrong}}

Body(shape, isList, list, id, url) ==
  [shape |-> shape, isList |-> isList, results |-> list, id |-> id, url |-> url]
Bodies ==
  {Body("other", FALSE, <<>>, FALSE, FALSE), Body("dict", FALSE, <<>>, FALSE, FALSE)}
  \cup {Body("dict", TRUE, l, FALSE, FALSE) : l \in Lists}
  \cup {Body("dict", FALSE, <<>>, id, url) : id, url \in BOOLEAN}

\* An SDK result without a status is taken as good as one below 400.
Exceptions == [kind : {"raises"}, status : {NoCode, 404, 500},
               body : {Body("other", FALSE, <<>>, FALSE, FALSE)}]
Odd == [kind : {"odd"}, status : {NoCode}, body : {Body("other", FALSE, <<>>, FALSE, FALSE)}]
AllResults == Exceptions \cup Odd
              \cup [kind : {"returns"}, status : {NoCode, 200, 401, 500}, body : Bodies]
=============================================================================
