------------------------------ MODULE MCFilter ------------------------------
(* One tensor_filter with a sub-plugin of every API version: "lite" knows    *)
(* the shapes of its models, "custom" takes the shape of the stream, "npu"   *)
(* is of version 2 and does both.                                            *)
EXTENDS TensorFilter

MCVersion == [lite |-> 0, custom |-> 1, npu |-> 2]
MCModels == {"m1", "m2", "m3"}
MCInOf == [m1 |-> <<"a">>, m2 |-> <<"b">>, m3 |-> <<"a">>]
MCStreams == {<<"a">>, <<"b">>, <<"a", "b">>}
MCOpens == {<<"lite", "m1">>, <<"lite", "m3">>, <<"custom", "m1">>, <<"custom", "m2">>,
            <<"npu", "m2">>}
MCDetect == [m1 |-> "lite", m2 |-> "npu", m3 |-> "none"]
MCOutFor(m, i) == <<i[1], "a">>
MCCombis == {NoCombi,
             [in |-> <<1>>, outI |-> <<2>>, outO |-> <<1>>],
             [in |-> <<2>>, outI |-> << >>, outO |-> << >>],
             [in |-> << >>, outI |-> <<1>>, outO |-> <<2>>]}
=============================================================================
