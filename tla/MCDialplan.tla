----------------------------- MODULE MCDialplan -----------------------------
(* TLC instance of Dialplan: three route files, one of them invalid. *)
EXTENDS Dialplan

RouteOf(p, n, on, acts) ==
    [pattern |-> p, priority |-> n, enabled |-> on, actions |-> acts]

\* Two routes of one priority cover "12"; "1" has a disabled route too, and the
\* route that should cover what ends with 2 is one that route.go cannot read.
Extensions ==
    << RouteOf(<<"*">>, 9, TRUE, <<"play", "play", "hangup">>),
       RouteOf(<<"1", "*">>, 5, TRUE, <<"dial", "bad">>),
       RouteOf(<<"1", "2">>, 5, TRUE, <<"play", "dial">>),
       RouteOf(<<"*", "2">>, 3, TRUE, <<"hangup">>),
       RouteOf(<<"1">>, 1, FALSE, <<"hangup">>) >>

NoDefault == << RouteOf(<<"1", "*">>, 1, TRUE, <<"hangup", "play">>) >>

Broken == << RouteOf(<<"*">>, 1, TRUE, <<>>) >>

MCConfig == {Extensions, NoDefault, Broken}

MCDest == {<<"1">>, <<"1", "2">>, <<"2">>}

Ext(u, host) == [user |-> u, host |-> host]
To(kind, ext) == [kind |-> kind, ext |-> ext]

\* An extension, one at a host, a URI and a gateway.
MCTarget == { To("plain", Ext("u", "")), To("user", Ext("u", "x")),
              To("sip", Ext("u", "x")), To("gateway", Ext("u", "")) }

\* Devices at the address that is looked for, at others of the user, and at
\* that of another user.
MCReg == { [aor |-> Ext("u", "home"), dev |-> 1, q |-> 0],
           [aor |-> Ext("u", "home"), dev |-> 2, q |-> 5],
           [aor |-> Ext("u", "x"), dev |-> 1, q |-> 5],
           [aor |-> Ext("v", "home"), dev |-> 3, q |-> 9] }
=============================================================================
