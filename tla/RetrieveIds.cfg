SPECIFICATION Spec
CONSTANTS
  Vertex <- MCVertex
  core_list <- MCCore
  compo_l <- MCCompo
  sp_l_list <- MCEntries
  cur_coreness = 2
  Degree = 2
  Inputs <- Sequential
  cur_graph_ori_adj <- MCAdj
  cnns_2_ori <- MCOri
  Cal_Dist <- MCDist
  gamma = 6
  R = 75
  L = 12
  Given = "truss"
  Thread = {1, 2}
  NoQuery = None
INVARIANT NamesRetrieved
