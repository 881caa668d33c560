--------------------------- MODULE MCVendorLinks ---------------------------
EXTENDS VendorLinks, TLC

CONSTANTS s1, s2, k1, k2

\* s2's history begins a day after s1's, and so does k2's; k2 shares s2's CIK.
MCFirst  == (s1 :> 0) @@ (s2 :> 1)
MCBorn   == (k1 :> 0) @@ (k2 :> 1)
MCShared == {<<s2, k2>>}

Compared(a, b, c, d) ==
    (<<s1, k1>> :> a) @@ (<<s1, k2>> :> b) @@ (<<s2, k1>> :> c) @@ (<<s2, k2>> :> d)

\* Two securities agree with one key, one of them with a dead issuer's too; prices
\* that hardly agree, and a security that only its CIK can link to a key nobody trades.
MCStarts ==
    {[found  |-> Compared("agrees", "agrees", "apart", "agrees"),
      trades |-> (k1 :> None) @@ (k2 :> s2)],
     [found  |-> Compared("latest", "off", "apart", "off"),
      trades |-> (k1 :> None) @@ (k2 :> None)]}
=============================================================================
