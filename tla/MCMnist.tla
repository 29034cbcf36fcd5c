------------------------------ MODULE MCMnist -------------------------------
(* One file, three images to train on in batches of two (the last one is  *)
(* shorter) or none, and every kind of request.                            *)
EXTENDS Mnist

MCFiles == {"train"}
MCTrainData == 1..3
MCTestData == {4}
MCRuns == {[epochs |-> 2, batch |-> 2, output |-> TRUE], [epochs |-> 1, batch |-> 0, output |-> TRUE],
           [epochs |-> 0, batch |-> 2, output |-> TRUE], [epochs |-> 1, batch |-> 3, output |-> FALSE]}
MCCalls == {[binary |-> <<"a">>, image |-> <<"b", "c">>], [binary |-> <<>>, image |-> <<>>],
            [binary |-> <<"double">>, image |-> <<>>], [binary |-> <<"a", "b">>, image |-> <<>>]}
MCRequests == {[method |-> "post", url |-> u, body |-> b] :
                 u \in {"image", "binary"}, b \in {"a", "empty", "double", "garbage"}} \union
              {[method |-> "get", url |-> "image", body |-> "a"], [method |-> "post", url |-> "other", body |-> "b"]}
=============================================================================
