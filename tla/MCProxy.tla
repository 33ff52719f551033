------------------------------ MODULE MCProxy ------------------------------
(* Small instances of Proxy.  br and us stand for two backends of          *)
(* different countries and regions; br is the closer one for the client.   *)
EXTENDS Proxy, TLC

CONSTANTS s1, s2, c1, br, us

Row(c, r, w, soft, hard) ==
    [country |-> c, region |-> r, weight |-> w, soft_limit |-> soft, hard_limit |-> hard]

MCSlots == {s1, s2}
MCClients == {c1}
MCBackends == {br, us}

MCKindTcp == [s \in Slots |-> "tcp"]
MCKindTlsTcp == [s \in Slots |-> IF s = s1 THEN "tls" ELSE "tcp"]
MCKindTlsDns == [s \in Slots |-> IF s = s1 THEN "tls" ELSE "dns"]

\* br takes one connection, us any number.
MCInfo == (br :> Row("BR", "sa", 1, 1, 1)) @@ (us :> Row("US", "us", 2, 1, 0))

MCGeo == [k \in Clients |-> {[country |-> "BR", region |-> "sa"]}]
============================================================================
