------------------------------- MODULE MCImport -------------------------------
(* An instance of ImportDocument for TLC.                                       *)
EXTENDS ImportDocument, TLC

MCLower == ("C1" :> "c1" @@ "BC-1" :> "bc-1" @@ "BC-2" :> "bc-2" @@ "IT" :> "it")
MCNumbers == <<>>

Of(no, qty) == Line(no, <<>>, qty, 1)
Widget == Of(<<"IT">>, 2)
Direct == Of(<<" ", "it-2">>, 1)

Document(type, partner, ls) == Doc(type, <<"7">>, partner, <<>>, <<>>, ls)

\* A document of each way, with one line and with two, of a source item that is
\* mapped or of one that Business Central knows by the number; and documents
\* with a fault of each kind in one field.
MCSources ==
    {Document("sales", <<"C1">>, <<Widget, Widget>>),
     Document("purchase", <<"C1", " ">>, <<Direct>>),
     Document("service", <<"BC-1">>, <<Direct, Widget>>),
     Document("assembly_order", <<"C1">>, <<Widget>>),
     Document("production_order", <<"C1">>, <<Direct, Widget>>),
     Document("assembly_order", <<>>, <<Widget>>),
     Document("sales", <<" ">>, <<Widget>>),
     Document("transfer_order", <<"C1">>, <<Of(<<"IT">>, 0), Of(<<" ">>, 1)>>)}

\* The maps are empty, or they have the customer and the item.
MCFirstMap ==
    {<<>>,
     <<MapRow("customer", <<"c1">>, <<"BC-1">>), MapRow("item", <<"IT", " ">>, <<"BC-1">>)>>}

\* A vendor, a change of the item, and a row to a number BC does not have.
MCUpserts ==
    {MapRow("vendor", <<"C1">>, <<"BC-2">>), MapRow("item", <<"it">>, <<"BC-2">>),
     MapRow("customer", <<"C1">>, <<"BC-9">>)}

MCBcPages ==
    [customer |-> <<<<>>, <<<<"BC-1">>>>>>,
     vendor |-> <<<<<<"BC-2">>>>>>,
     item |-> <<<<<<"BC-1">>>>, <<<<"BC-2">>, <<"it-2">>>>>>]
===============================================================================
