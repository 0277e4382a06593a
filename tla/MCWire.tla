------------------------------- MODULE MCWire ------------------------------
(***************************************************************************)
(* An instance of Wire for TLC: bytes of 4 values, so that int16_t, int32_t *)
(* and int64_t hold 4, 8 and 16 bits, and values at the ends of the types.  *)
(* A year has 12 days and starts at tick 0 in year 5, so that day -49 is    *)
(* the first of year 1; ticks -1080, -590 and -95 fall on leap days.        *)
(***************************************************************************)
EXTENDS Wire

V(ty, vs) == {[ty |-> ty, v |-> v] : v \in vs}
Num(sign, weight, dscale, digits) ==
    [sign |-> sign, weight |-> weight, dscale |-> dscale, digits |-> digits]
Nums == {Num(SignCode.POS, 0, 0, <<>>), Num(SignCode.NEG, 1, 0, <<1>>),
         Num(SignCode.POS, 2, 0, <<3, 0, 1>>), Num(SignCode.NEG, -1, 1, <<2>>),
         Num(SignCode.NAN, 0, 0, <<>>)}
Stamps == {<<>>, <<-1>>, <<0>>, <<100>>, <<-95>>, <<-600>>, <<-655>>, <<-1077>>, <<32767>>}
Day(y, md) == <<[y |-> y, md |-> md]>>
Flags == {{}, {"lb_inc"}, {"lb_inc", "ub_inc"}, {"empty"}, {"lb_inc", "ub_inf", "contain_empty"},
          {"lb_inf", "ub_inc"}, {"lb_inc", "ub_inf"}, {"lb_inf", "ub_inf"}}
Ranges(ty, lb, ub) ==
    V(ty, {[flags |-> f, lb |-> IF {"empty", "lb_inf"} \cap f = {} THEN lb ELSE DefaultBound(Subtype[ty]),
            ub |-> IF {"empty", "ub_inf"} \cap f = {} THEN ub ELSE DefaultBound(Subtype[ty])]
           : f \in Flags})
Array(of, dims, v) == {[ty |-> "ARRAY", of |-> of, dims |-> dims, v |-> v]}
Sixteen == [i \in 1..16 |-> i % 3]

MCValues ==
    <<V("BOOL", BOOLEAN), V("INT2", {-8, 0, 7}), V("INT4", {-128, 8, 127}),
      V("INT8", {-32768, -590, 128, 32767}), V("FLOAT4", {-128, 5}), V("FLOAT8", {-3, 300}),
      V("CASH", {0, -250}), V("OID", {3, 200}), V("NUMERIC", Nums),
      V("TIME", {<<>>, <<0>>, <<9>>}), V("TIMETZ", {<<>>, <<4>>, <<1000>>}),
      V("TIMESTAMP", Stamps), V("TIMESTAMPTZ", Stamps),
      V("DATE", {<<>>, Day(5, 0), Day(4, 3), Day(0, 2), Day(-1, 3), Day(-4, 3), Day(14, 12)}), V("INTERVAL", {<<[t |-> -5, d |-> 3, m |-> -1]>>}),
      V("TEXT", {<<>>, <<<<"num", 7>>>>, <<<<"word", "a">>, <<"word", "b">>>>, <<<<"bool", FALSE>>>>}),
      V("JSONB", {<<<<"doc", 1>>>>}), V("BYTEA", {<<>>, <<200, 0, 10>>}), V("UUID", {Sixteen}),
      V("CIDR", {[family |-> "inet", bits |-> 24, ipaddr |-> <<10, 0, 0, 0>>]}),
      V("INET", {[family |-> "inet6", bits |-> 128, ipaddr |-> Sixteen]}),
      V("MACADDR", {<<1, 2, 3, 4, 5, 255>>}), V("MACADDR8", {<<1, 2, 3, 4, 5, 6, 7, 255>>}),
      V("POINT", {<<1, -2>>}), V("LINE", {<<1, -2, 3>>}), V("LSEG", {<<1, 2, 3, 4>>}),
      V("BOX", {<<4, 3, 2, 1>>}), V("CIRCLE", {<<1, 2, 9>>}),
      V("PATH", {[closed |-> c, p |-> p] : c \in BOOLEAN, p \in {<<>>, <<1, 2, 3, 4>>}}),
      V("POLYGON", {[p |-> <<>>], [p |-> <<1, 2, 3, 4, -5, 6>>]}),
      Ranges("INT4RANGE", -128, 127), Ranges("INT4RANGE", 2, 3), Ranges("INT8RANGE", 0, 200),
      Ranges("NUMRANGE", Num(SignCode.NEG, 1, 0, <<1>>), Num(SignCode.POS, 0, 0, <<>>)),
      Ranges("TSRANGE", <<-1>>, <<100>>), Ranges("TSTZRANGE", <<1>>, <<2>>),
      Ranges("TSTZRANGE", <<-600>>, <<2>>),
      Ranges("DATERANGE", Day(-2, 12), Day(5, 0))
   , Array("INT4", <<>>, <<>>), Array("INT2", <<2, 2>>, <<-8, 0, 1, 7>>)
   , Array("TEXT", <<2>>, <<<<>>, <<<<"word", "a">>>>>>), Array("NUMERIC", <<2>>,
            <<Num(SignCode.POS, 2, 0, <<3, 0, 1>>), Num(SignCode.POS, 0, 0, <<>>)>>)
   , Array("TIMESTAMP", <<2>>, <<<<0>>, <<32767>>>>), Array("INT8", <<0>>, <<>>)
   , Array("POLYGON", <<2>>, <<[p |-> <<3, 4, 5, 6>>], [p |-> <<1, 2>>]>>)
   , Array("DATE", <<1>>, <<Day(0, 2)>>)
   , Array("JSONB", <<1>>, <<<<<<"doc", 1>>>>>>), Array("BYTEA", <<1>>, <<<<7>>>>)
   , Array("INTERVAL", <<1>>, <<<<[t |-> 1, d |-> 2, m |-> 3]>>>>)>>

=============================================================================
