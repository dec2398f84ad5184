------------------------------- MODULE MCField -------------------------------
(* One run for what comes in from the field: a behaviour is one of the systems that *)
(* part names, and the variables of the others stand still.                          *)
EXTENDS Surveys, SurveyExport, QaRecords, TLC

CONSTANTS
  c1, c2          \* contents: of recordings, and of photos

VARIABLE part

fieldVars == <<surveyVars, exportVars, recordVars, part>>

At(n, form) == [at |-> n, form |-> form]
Rates(governor, mark) == [governor |-> governor, mark |-> mark]
Knows(person, level) == [person |-> person, level |-> level]

(* Surveys under one idLocal: the same content in two spellings, contents that differ *)
(* in the name, the duration, the text of "otro" or the lists, pairs of them with the   *)
(* same line in the CSV, and two refused ones.                                          *)
Third ==
  [idLocal |-> "i", version |-> 3, encuestador |-> "absent", estado |-> "completada",
   elegibilidad |-> "absent", inicio |-> At(0, "Z"), fin |-> At(3, "Z"), duracion |-> 5,
   versionAplicacion |-> "name", ubicacion |-> [kind |-> "absent"], queue |-> 0,
   respuestas |-> [empresariosConocidos |-> <<>>, politicosConocidos |-> <<"name", "other name">>,
                   preferencia |-> "lalo", preferenciaOtro |-> "absent",
                   aprobacion |-> <<Rates("jara", 1), Rates("sheinbaum", 2)>>]]
Fourth ==
  [Third EXCEPT !.version = 4, !.respuestas.preferencia = "otro",
                !.respuestas.preferenciaOtro = "=name, other"]
First ==
  [Third EXCEPT !.version = 1, !.elegibilidad = "elegible",
                !.respuestas = [credencial |-> "si",
                                conocimiento |-> <<Knows("paco", "poco"), Knows("laura", "no_conoce")>>,
                                medios |-> [tipo |-> "respondida",
                                            medios |-> <<"redes_sociales", "labor_social">>]]]
TheBodies ==
  {Third, [Third EXCEPT !.encuestador = "name"],
   [Third EXCEPT !.encuestador = "padded name", !.fin = At(3, "+00:00"), !.queue = 1,
                 !.respuestas.aprobacion = <<Rates("sheinbaum", 2), Rates("jara", 1)>>],
   [Third EXCEPT !.duracion = 6], [Third EXCEPT !.respuestas.politicosConocidos = <<"name;other name">>],
   Fourth, [Fourth EXCEPT !.respuestas.preferenciaOtro = "'=name, other"],
   First, [First EXCEPT !.respuestas.medios.tipo = "omitidaPorLogica"],
   [Third EXCEPT !.version = 2]}

TheUploads == {<<c1>>, <<c2>>, <<c1, c2>>}

FieldInit ==
  /\ part \in {"surveys", "export", "records"}
  /\ SurveysInit /\ QaInit /\ ExportInit
  /\ part # "export" => filter = "all" /\ download = "csv" /\ \A i \in Surveyed : stored[i] = "none"

FieldNext ==
  /\ \/ part = "surveys" /\ SurveysNext /\ UNCHANGED <<exportVars, recordVars>>
     \/ part = "export" /\ ExportNext /\ UNCHANGED <<surveyVars, recordVars>>
     \/ part = "records" /\ QaNext /\ UNCHANGED <<surveyVars, exportVars>>
  /\ UNCHANGED part

FieldSpec == FieldInit /\ [][FieldNext]_fieldVars

(* Requests, ids of phones and contents are shared between the systems. *)
Interchangeable ==
  UNION {Permutations(Requests), Permutations(Keys), Permutations(Blobs), Permutations(Programas)}
=============================================================================
