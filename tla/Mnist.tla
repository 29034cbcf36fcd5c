------------------------------- MODULE Mnist --------------------------------
(***************************************************************************)
(* The mnist-rs example: the client's train, infer and serve commands, the *)
(* training TA and the inference TA, and the files between them.  Every    *)
(* command is a process of its own and has its own TA instance (ta_flags   *)
(* is 0), so TRAINER and MODEL belong to one session.  A model is what it  *)
(* was trained on: how often each labelled image was shown to it.  The     *)
(* class a model gives an image is the pair of the two.                    *)
(***************************************************************************)
EXTENDS Integers, Sequences, FiniteSets

CONSTANTS DataFiles,   \* the data set files
          TrainData,   \* the images to train on; a label is named as its image
          TestData,    \* the images to validate with
          Runs,        \* the arguments of train: [epochs, batch, output]
          Calls,       \* the arguments of infer: [binary, image], sequences of inputs
          Requests     \* the HTTP requests: [method, url, body]

ASSUME DataAssumption == /\ TrainData # {} /\ IsFiniteSet(TrainData) /\ Cardinality(TrainData) \in Nat
                         /\ TestData # {} /\ IsFiniteSet(TestData)
ASSUME ArgsAssumption == /\ \A a \in Runs : a.epochs \in Nat /\ a.batch \in Nat
                         /\ \A c \in Calls : c.binary \in Seq(STRING) /\ c.image \in Seq(STRING)

(* The inputs of infer and serve that are images of IMAGE_SIZE bytes. *)
Images == {"a", "b", "c"}

VARIABLES data,      \* the files of the data set, as they are on disk
          file,      \* the exported model: how much of it is written, and the model
          exported,  \* every model whose export was completed
          tr,        \* the train command and its TA
          inf,       \* the infer command and its TA
          srv        \* the serve command and its TA
mnistVars == <<data, file, exported, tr, inf, srv>>

Seen == (TrainData \union TestData) \X (TrainData \union TestData)
Untrained == [p \in Seen |-> 0]
NoArgs == [epochs |-> 0, batch |-> 0, output |-> FALSE]
Off == [pc |-> "off", ta |-> "none", args |-> NoArgs, left |-> {}, now |-> {},
        train |-> <<>>, test |-> <<>>, epoch |-> 1, pos |-> 1, model |-> Untrained]
Quiet == [pc |-> "off", ta |-> "none", model |-> Untrained, call |-> [binary |-> <<>>, image |-> <<>>],
          lines |-> <<>>]
Down == [pc |-> "off", ta |-> "none", model |-> Untrained,
         req |-> [method |-> "none", url |-> "none", body |-> "none"],
         resp |-> [status |-> 0, class |-> <<>>]]

MnistInit == /\ data \in [DataFiles -> {"absent", "whole"}]
             /\ file = [at |-> "absent", model |-> Untrained] /\ exported = {}
             /\ tr = Off /\ inf = Quiet /\ srv = Down

-----------------------------------------------------------------------------
(* The train command.  A process that fails or is killed leaves its files. *)
TrainEnds == tr' = Off

TrainKilled == tr.pc # "off" /\ TrainEnds /\ UNCHANGED <<data, file, exported, inf, srv>>

(* TrainerTaConnector::new *)
Trainer(a) == [Off EXCEPT !.pc = "fetch", !.ta = "alive", !.args = a, !.left = DataFiles]

(* open_session: a trainer with a new model, before the data is looked at. *)
TrainStart(a) ==
  /\ tr.pc = "off"
  /\ tr' = Trainer(a)
  /\ UNCHANGED <<data, file, exported, inf, srv>>

(* check_download_mnist_data keeps a file as long as the download was      *)
(* compressed, although what it stores is not.                             *)
Kept(f) == data[f] = "compressed"

(* The next file is kept, or downloaded and written anew.  While it is     *)
(* written it is shorter than it will be, and for a moment as long as the  *)
(* download was.                                                           *)
Fetch ==
  /\ tr.pc = "fetch"
  /\ \E f \in tr.left :
       IF Kept(f)
       THEN tr' = [tr EXCEPT !.left = @ \ {f}] /\ UNCHANGED data
       ELSE \/ TrainEnds /\ UNCHANGED data
            \/ /\ \E cut \in {"partial", "compressed"} : data' = [data EXCEPT ![f] = cut]
               /\ tr' = [tr EXCEPT !.pc = "store", !.left = @ \ {f}, !.now = {f}]
  /\ UNCHANGED <<file, exported, inf, srv>>

Store ==
  /\ tr.pc = "store"
  /\ data' = [f \in DataFiles |-> IF f \in tr.now THEN "whole" ELSE data[f]]
  /\ tr' = [tr EXCEPT !.pc = "fetch", !.now = {}]
  /\ UNCHANGED <<file, exported, inf, srv>>

(* convert_datasets: every image with its label, in any order. *)
Orders(set) ==
  {o \in [1..Cardinality(set) -> set] : \A x \in set : \E i \in DOMAIN o : \A j \in DOMAIN o : o[j] = x <=> j = i}
Shuffled(set) == {[i \in DOMAIN o |-> <<o[i], o[i]>>] : o \in Orders(set)}

(* Mnist::new, which panics on a file that is too short.                   *)
Load ==
  /\ tr.pc = "fetch" /\ tr.left = {}
  /\ IF \A f \in DataFiles : data[f] = "whole"
     THEN \E o \in Shuffled(TrainData), v \in Shuffled(TestData) :
            tr' = [tr EXCEPT !.pc = "train", !.train = o, !.test = v]
     ELSE TrainEnds
  /\ UNCHANGED <<data, file, exported, inf, srv>>

(* The chunk of slice::chunks that starts at from. *)
Chunk(s, from, n) == IF from + n - 1 > Len(s) THEN SubSeq(s, from, Len(s)) ELSE SubSeq(s, from, from + n - 1)

(* Trainer::train on the images and labels of a chunk: every image is seen *)
(* once more, with the label at its place.                                 *)
Trained(model, images, labels) ==
  [p \in Seen |-> model[p] + Cardinality({i \in DOMAIN images : <<images[i], labels[i]>> = p})]

(* Tensor::cat of no tensors panics, and so does the loss of predictions   *)
(* and targets of different sizes.                                         *)
BatchPanics(images, labels) == images = <<>> \/ Len(images) # Len(labels)

(* The images and the labels that TrainerTaConnector sends of a chunk. *)
ImagesOf(c) == [i \in DOMAIN c |-> c[i][1]]
LabelsOf(c) == [i \in DOMAIN c |-> c[i][2]]

(* One iteration: trainer.train, which the client gives up on if the       *)
(* answer is no number (serde_json cannot read it back), or if TEEC fails. *)
TrainBatch ==
  /\ tr.pc = "train" /\ tr.epoch <= tr.args.epochs /\ tr.pos <= Len(tr.train)
  /\ LET c == Chunk(tr.train, tr.pos, tr.args.batch)
     IN  IF tr.args.batch = 0 THEN TrainEnds
         ELSE IF BatchPanics(ImagesOf(c), LabelsOf(c)) THEN tr' = [tr EXCEPT !.ta = "dead", !.pc = "failed"]
         ELSE \/ TrainEnds
              \/ tr' = [tr EXCEPT !.model = Trained(@, ImagesOf(c), LabelsOf(c)),
                                  !.pos = @ + tr.args.batch]
  /\ UNCHANGED <<data, file, exported, inf, srv>>

TrainedAll ==
  /\ tr.pc = "train" /\ tr.epoch <= tr.args.epochs /\ tr.pos > Len(tr.train)
  /\ tr' = [tr EXCEPT !.pc = "valid", !.pos = 1]
  /\ UNCHANGED <<data, file, exported, inf, srv>>

(* Mutant: Valid shows the images to the trainer. *)
ValidatedTrains(model, images, labels) == Trained(model, images, labels)

(* Trainer::valid works on a copy of the model. *)
Validated(model, images, labels) == model

(* One iteration of the validation. *)
ValidBatch ==
  /\ tr.pc = "valid" /\ tr.pos <= Len(tr.test)
  /\ LET c == Chunk(tr.test, tr.pos, tr.args.batch)
     IN  IF BatchPanics(ImagesOf(c), LabelsOf(c)) THEN tr' = [tr EXCEPT !.ta = "dead", !.pc = "failed"]
         ELSE \/ TrainEnds
              \/ tr' = [tr EXCEPT !.model = Validated(@, ImagesOf(c), LabelsOf(c)),
                                  !.pos = @ + tr.args.batch]
  /\ UNCHANGED <<data, file, exported, inf, srv>>

EpochEnds ==
  /\ tr.pc = "valid" /\ tr.pos > Len(tr.test)
  /\ tr' = [tr EXCEPT !.pc = "train", !.pos = 1, !.epoch = @ + 1]
  /\ UNCHANGED <<data, file, exported, inf, srv>>

(* trainer.export, if an output was asked for; the record may not fit, or  *)
(* TEEC fail.  std::fs::write makes the file empty first.                  *)
Export ==
  /\ tr.pc = "train" /\ tr.epoch > tr.args.epochs
  /\ \/ TrainEnds /\ UNCHANGED file
     \/ /\ tr.args.output
        /\ file' = [at |-> "torn", model |-> Untrained]
        /\ tr' = [tr EXCEPT !.pc = "write"]
  /\ UNCHANGED <<data, exported, inf, srv>>

(* Trainer::export and Model::export: the record of the parameters. *)
Exported(model) == [at |-> "whole", model |-> model]

WriteModel ==
  /\ tr.pc = "write"
  /\ file' = Exported(tr.model) /\ exported' = exported \union {<<tr.args, tr.model>>}
  /\ TrainEnds
  /\ UNCHANGED <<data, inf, srv>>

-----------------------------------------------------------------------------
(* Mutant: a record cut short is loaded all the same. *)
ImportsAny(f) == f.at # "absent"

(* fs::read and Model::import: there must be a record, all of it. *)
Imports(f) == f.at = "whole"

(* InferenceTaConnector::new on the record as it is now, and open_session  *)
(* of the TA, which keeps what it imported in MODEL.                       *)
SessionOpens == Imports(file)
ModelRead == file.model

(* invoke_command of the inference TA: an empty batch panics, any other    *)
(* gets one class for each image.                                          *)
Inferred(model, images) == [i \in DOMAIN images |-> <<model, images[i]>>]

(* infer: the session is opened with the record, then the inputs are read, *)
(* all of which have to be of the right size.                              *)
InferStart(call) ==
  /\ inf.pc = "off"
  /\ SessionOpens
  /\ \A i \in DOMAIN call.binary : call.binary[i] \in Images
  /\ \A i \in DOMAIN call.image : call.image[i] \in Images
  /\ inf' = [Quiet EXCEPT !.pc = "infer", !.ta = "alive", !.model = ModelRead, !.call = call]
  /\ UNCHANGED <<data, file, exported, tr, srv>>

(* The lines printed: the binaries with the classes at their places, the   *)
(* images with the class that follows those.                               *)
LineAt(call, result) ==
  [i \in 1..Len(call.binary) |-> <<call.binary[i], result[i]>>] \o
  [i \in 1..Len(call.image) |-> <<call.image[i], result[Len(call.binary) + 1]>>]

InferBatch ==
  /\ inf.pc = "infer"
  /\ LET images == inf.call.binary \o inf.call.image
     IN  \/ inf' = Quiet
         \/ images # <<>> /\ inf' = [inf EXCEPT !.pc = "done", !.lines = LineAt(inf.call, Inferred(inf.model, images))]
         \/ images = <<>> /\ inf' = [inf EXCEPT !.pc = "done", !.ta = "dead"]
  /\ UNCHANGED <<data, file, exported, tr, srv>>

InferEnds == inf.pc = "done" /\ inf' = Quiet /\ UNCHANGED <<data, file, exported, tr, srv>>

-----------------------------------------------------------------------------
(* serve: the model is loaded once. *)
ServeStart ==
  /\ srv.pc = "off" /\ SessionOpens
  /\ srv' = [Down EXCEPT !.pc = "recv", !.ta = "alive", !.model = ModelRead]
  /\ UNCHANGED <<data, file, exported, tr, inf>>

Status(n) == [status |-> n, class |-> <<>>]

Recv(req) ==
  /\ srv.pc = "recv"
  /\ srv' = [srv EXCEPT !.pc = "handle", !.req = req, !.resp = Status(0)]
  /\ UNCHANGED <<data, file, exported, tr, inf>>

(* The answer to the request, by its status. *)
Responds(n) == srv' = [srv EXCEPT !.pc = "respond", !.resp = Status(n)]

(* infer_batch and handle_infer: result[0] of what the TA answers. *)
HandleInfer(images) ==
  IF srv.ta = "dead" THEN Responds(500)
  ELSE IF images = <<>> THEN srv' = [srv EXCEPT !.pc = "respond", !.resp = Status(500), !.ta = "dead"]
  ELSE \/ Responds(500)
       \/ srv' = [srv EXCEPT !.pc = "respond",
                             !.resp = [status |-> 200, class |-> Inferred(srv.model, images)[1]]]

(* What handle_binary makes of a body: none unless it is one image. *)
Tensor(body) == IF body \in Images THEN <<<<body>>>> ELSE <<>>

(* handle_image fails on what it cannot decode, and refuses an image of    *)
(* another size; handle_binary refuses whatever is no image.               *)
Handle ==
  /\ srv.pc = "handle"
  /\ LET r == srv.req
     IN  IF r.method # "post" THEN Responds(400)
         ELSE IF r.url = "image"
         THEN IF r.body \in {"empty", "garbage"} THEN Responds(500)
              ELSE IF r.body = "double" THEN Responds(400) ELSE HandleInfer(<<r.body>>)
         ELSE IF r.url = "binary"
         THEN IF Tensor(r.body) = <<>> THEN Responds(400) ELSE HandleInfer(Tensor(r.body)[1])
         ELSE Responds(404)
  /\ UNCHANGED <<data, file, exported, tr, inf>>

(* request.respond: an error ends the server. *)
Respond ==
  /\ srv.pc = "respond"
  /\ srv' \in {Down, [srv EXCEPT !.pc = "recv"]}
  /\ UNCHANGED <<data, file, exported, tr, inf>>

MnistNext == \/ TrainKilled \/ Fetch \/ Store \/ Load \/ TrainBatch \/ TrainedAll \/ ValidBatch \/ EpochEnds
             \/ Export \/ WriteModel \/ \E a \in Runs : TrainStart(a)
             \/ InferBatch \/ InferEnds \/ \E c \in Calls : InferStart(c)
             \/ ServeStart \/ Handle \/ Respond \/ \E r \in Requests : Recv(r)

MnistSpec == MnistInit /\ [][MnistNext]_mnistVars

-----------------------------------------------------------------------------
(* An exported model has seen every image of the training set, with its    *)
(* own label, once for each epoch that was asked for, and no image of the  *)
(* test set: whatever the batch size, and whatever failed before.          *)
ExportSawAll ==
  \A e \in exported : \A p \in Seen :
    e[2][p] = IF p[1] \in TrainData /\ p[1] = p[2] THEN e[1].epochs ELSE 0

(* Every class that infer prints or serve answers comes from a model whose *)
(* export was completed, although the file is rewritten in place and the   *)
(* training may be killed meanwhile; and serve answers for the image it    *)
(* was sent.                                                               *)
AnswersWhole ==
  LET models == {e[2] : e \in exported}
  IN  /\ \A i \in DOMAIN inf.lines : inf.lines[i][2][1] \in models
      /\ srv.resp.status = 200 => srv.resp.class[1] \in models /\ srv.resp.class[2] = srv.req.body
=============================================================================
