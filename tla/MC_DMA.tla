------------------------------- MODULE MC_DMA -------------------------------
(* Two devices' channels and the ordering table's for model checking.      *)
EXTENDS DMA

MCOrder == <<"GPU", "SPU", "OTC">>
MCMode == "GPU" :> "list" @@ "SPU" :> "request" @@ "OTC" :> "manual"
MCStarts == {<<"GPU", 2>>, <<"SPU", 1>>, <<"SPU", 3>>, <<"OTC", 1>>}
MCDpcr == {{}, {"GPU", "SPU", "OTC"}}
MCIrq == {[enable |-> {"SPU"}, master |-> TRUE], [enable |-> {"GPU", "SPU"}, master |-> FALSE]}
=============================================================================
