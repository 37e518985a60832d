-------------------------- MODULE MCEmailIngestion --------------------------
(***************************************************************************)
(* EmailIngestion for TLC: one mail in two copies, a mail of a tenant whose *)
(* name and message id join to the same source id, an unreadable mail, and *)
(* clients that hang their own span and embedding under the first mail.    *)
(***************************************************************************)
EXTENDS EmailIngestion

CONSTANTS w1, w2

Mail(tenant, id, raw, body) ==
    [tenant_id |-> tenant, message_id |-> id, raw |-> raw, body |-> body]

Original == Mail(<<"acme">>, <<"eu", ":", "m1">>, "original", <<"text">>)
Forwarded == Mail(<<"acme">>, <<"eu", ":", "m1">>, "forwarded", <<"text", "footer">>)
Joined == Mail(<<"acme", ":", "eu">>, <<"m1">>, "joined", <<"other">>)
NoBody == Mail(<<"acme">>, <<"m2">>, "image", <<>>)
NoMessageId == Mail(<<"acme">>, <<>>, "draft", <<"text">>)

MCEmails == {Original, Forwarded, Joined, NoBody, NoMessageId}

MCTokens == {"acme", "eu", ":", "m1", "m2", "text", "footer", "other", "body"}

Contract == [tenant_id |-> <<"acme">>, source_id |-> <<"contract">>, checksum |-> "contract"]

MCEnvelopes == {Contract}

\* A clause of the contract, and a quotation of another tenant's mail.
MCSpans ==
    {[tenant_id |-> <<"acme">>, span_id |-> <<"clause">>,
      source_id |-> <<"contract">>, text |-> <<"clause">>],
     [tenant_id |-> <<"acme", ":", "eu">>, span_id |-> <<"quote">>,
      source_id |-> SourceId(Original), text |-> <<"quote">>]}

MCEmbeddings ==
    {[tenant_id |-> <<"acme">>, span_id |-> <<"clause">>, model |-> "m"]}
=============================================================================
